---- MODULE Spec2Model ----
(***************************************************************************)
(* Live scoring engine of the darts application: the WebSocket handlers   *)
(* (join_game, leave_game, throw_dart, undo_throw, start_game, end_game), *)
(* the game-logic functions they call and the live_games,                 *)
(* live_game_players and live_game_throws tables they read and write.     *)
(*                                                                         *)
(* Encoding of JavaScript / SQL values:                                    *)
(*   - a segment that is null, undefined or 0 (all falsy, all stored as   *)
(*     NULL by `segment || null`) is the number 0;                         *)
(*   - SQL NULL in a column that the code never does arithmetic on for    *)
(*     the match's variant is the string "null"; a NULL winner_player_id  *)
(*     is the empty tuple;                                                 *)
(*   - uuids are tuples: a player id is <<gameId, order>>, a throw id is  *)
(*     <<gameId, k>> with k the least number not used by a stored throw   *)
(*     of that game;                                                       *)
(*   - node runs every handler to completion before the next message is   *)
(*     taken (the handlers and the better-sqlite3 calls are synchronous), *)
(*     so each handler is one action.                                      *)
(***************************************************************************)
EXTENDS Integers, Sequences, FiniteSets, TLC

VARIABLES
  live_games,         \* table live_games: gameId -> row
  live_game_players,  \* table live_game_players: gameId -> rows ordered by player_order
  live_game_throws,   \* table live_game_throws: gameId -> rows in insertion order
  conns,              \* the authenticated sockets: connection -> ws fields
  gameRooms,          \* Map gameId -> Set of connections
  sent,               \* connection -> messages ws.send() delivered during the last handler
  last,               \* history: the last message handled
  turnStart           \* history: gameId -> the current player's remaining score before
                      \* dart 1 of the current turn, when a throw_dart recorded it

vars == <<live_games, live_game_players, live_game_throws, conns, gameRooms, sent, last, turnStart>>

----------------------------------------------------------------------------
\* Bounds of the model

\* starting_score of the modelled 301 and 501 matches
StartScore == 4
\* throws recorded at most in a match of Spec
MaxThrows == 7
\* throws recorded at most in a match of SpecScoring
MaxThrowsScoring == 4
\* throws recorded at most in the match of SpecThrows
MaxThrowsDeep == 8
\* throws recorded at most per match in SpecRooms
MaxThrowsRooms == 1
\* throws recorded at most in SpecShared
MaxThrowsShared == 4
\* participants at most (2..MaxPlayers) in SpecAdvance
MaxMarks == 4
MaxThrowsCricket == 1
MaxBehind == 2
MaxThrowsWorld == 2
MaxGames == 2
MaxThrowsFinal == 3
MaxThrowsUndo == 2
MaxPlayers == 4
\* turn number at most (1..MaxStartTurn) from which SpecAdvance starts advancing
MaxStartTurn == 5

----------------------------------------------------------------------------
\* Program constants

CRICKET_NUMBERS == {15, 16, 17, 18, 19, 20, 25}

NULL == "null"
NoPlayer == <<>>
NoGame == [id |-> "none"]

GameTypes01 == {"301", "501"}

\* The darts <<segment, multiplier>> the clients report: two per variant in Spec
\* and SpecShared, more in SpecScoring and SpecThrows, one per variant in SpecRooms
TurnDarts(gameType) ==
  IF gameType \in GameTypes01 THEN {<<2, 1>>, <<1, 2>>}
  ELSE IF gameType = "Cricket" THEN {<<25, 3>>, <<5, 1>>}
  ELSE {<<0, 1>>, <<1, 1>>}

ScoringDarts(gameType) ==
  IF gameType \in GameTypes01 THEN {<<0, 1>>, <<2, 1>>, <<1, 2>>, <<1, 3>>}
  ELSE IF gameType = "Cricket" THEN {<<0, 1>>, <<25, 1>>, <<25, 3>>, <<5, 1>>}
  ELSE {<<0, 1>>, <<1, 1>>, <<2, 3>>, <<25, 1>>}

DeepDarts == {<<0, 1>>, <<2, 1>>, <<1, 2>>}

RoomDarts(gameType) ==
  IF gameType \in GameTypes01 THEN {<<2, 1>>} ELSE {<<25, 3>>}

----------------------------------------------------------------------------
\* Sequence helpers

RemoveAt(s, i) == SubSeq(s, 1, i - 1) \o SubSeq(s, i + 1, Len(s))

Min(S) == CHOOSE x \in S : \A y \in S : x <= y

----------------------------------------------------------------------------
\* Game logic engine (game-logic.js). `gameState` is the object that
\* liveGames.findById returns: the live_games row with .players and .throws.
\* Each function that mutates gameState returns the mutated object.

\* gameState.players.find(p => p.id === playerId), as an index (0: not found)
FindPlayer(players, playerId) ==
  LET I == {i \in 1..Len(players) : players[i].id = playerId}
  IN  IF I = {} THEN 0 ELSE Min(I)

\* processCricketThrow scoring on a number whoever has closed it
processCricketThrow_IgnoreOthers(gameState, playerId, segment, multiplier) ==
  LET i == FindPlayer(gameState.players, playerId)
      player == gameState.players[i]
      miss == [playerId |-> playerId, segment |-> segment, multiplier |-> multiplier,
               marksAdded |-> 0, pointsScored |-> 0, closedNumber |-> FALSE]
  IN  IF segment = 0 \/ segment \notin CRICKET_NUMBERS
      THEN [game |-> gameState, result |-> miss]
      ELSE
        LET currentMarks == player.marks[segment]
            newMarks == currentMarks + multiplier
            pointsScored ==
              IF currentMarks >= 3 THEN multiplier * segment
              ELSE IF newMarks > 3 THEN (newMarks - 3) * segment
              ELSE 0
            player2 == [player EXCEPT !.marks[segment] = newMarks,
                                      !.cricket_points = @ + pointsScored]
        IN  [game |-> [gameState EXCEPT !.players[i] = player2],
             result |-> [playerId |-> playerId, segment |-> segment,
                         multiplier |-> multiplier, marksAdded |-> multiplier,
                         pointsScored |-> pointsScored, newMarks |-> newMarks,
                         closedNumber |-> (newMarks >= 3 /\ currentMarks < 3)]]

processCricketThrow(gameState, playerId, segment, multiplier) ==
  LET i == FindPlayer(gameState.players, playerId)
      player == gameState.players[i]
      miss == [playerId |-> playerId, segment |-> segment, multiplier |-> multiplier,
               marksAdded |-> 0, pointsScored |-> 0, closedNumber |-> FALSE]
  IN  IF segment = 0 \/ segment \notin CRICKET_NUMBERS
      THEN [game |-> gameState, result |-> miss]
      ELSE
        LET currentMarks == player.marks[segment]
            marksToAdd == multiplier
            isClosedByOthers ==
              \A j \in 1..Len(gameState.players) :
                gameState.players[j].id # playerId
                  => gameState.players[j].marks[segment] >= 3
            newMarks == currentMarks + marksToAdd
            pointsScored ==
              IF currentMarks >= 3 /\ ~isClosedByOthers THEN marksToAdd * segment
              ELSE IF currentMarks < 3 /\ newMarks > 3 /\ ~isClosedByOthers
                   THEN (newMarks - 3) * segment
              ELSE 0
            player2 == [player EXCEPT !.marks[segment] = newMarks,
                                      !.cricket_points = @ + pointsScored]
        IN  [game |-> [gameState EXCEPT !.players[i] = player2],
             result |-> [playerId |-> playerId, segment |-> segment,
                         multiplier |-> multiplier, marksAdded |-> marksToAdd,
                         pointsScored |-> pointsScored, newMarks |-> newMarks,
                         closedNumber |-> (newMarks >= 3 /\ currentMarks < 3)]]

AllClosed(player) == \A num \in CRICKET_NUMBERS : player.marks[num] >= 3

\* [...players].sort((a, b) => b.cricket_points - a.cricket_points)[0]: the sort is
\* stable, so the first of the players with the highest points
TopScorer(players) ==
  players[Min({i \in 1..Len(players) :
                 \A j \in 1..Len(players) :
                   players[j].cricket_points <= players[i].cricket_points})]

\* checkCricketComplete that ends the game only when everybody has closed everything
checkCricketComplete_AllClosedOnly(gameState) ==
  IF \A i \in 1..Len(gameState.players) : AllClosed(gameState.players[i])
  THEN [winnerId |-> TopScorer(gameState.players).id,
        winnerUserId |-> TopScorer(gameState.players).user_id, reason |-> "all_closed"]
  ELSE NoPlayer

\* The winner info, or NoPlayer (null) when the game continues
checkCricketComplete(gameState) ==
  LET players == gameState.players
      leaders == {i \in 1..Len(players) :
                    /\ AllClosed(players[i])
                    /\ \A j \in 1..Len(players) :
                         j # i => players[i].cricket_points > players[j].cricket_points}
  IN  IF \A i \in 1..Len(players) : AllClosed(players[i])
      THEN [winnerId |-> TopScorer(players).id,
            winnerUserId |-> TopScorer(players).user_id, reason |-> "all_closed"]
      ELSE IF leaders # {}
      THEN [winnerId |-> players[Min(leaders)].id,
            winnerUserId |-> players[Min(leaders)].user_id,
            reason |-> "closed_all_with_lead"]
      ELSE NoPlayer

\* process01Throw without the double-out condition
process01Throw_AnyOut(gameState, playerId, segment, multiplier) ==
  LET i == FindPlayer(gameState.players, playerId)
      player == gameState.players[i]
      rawValue == segment * multiplier
      newScore == player.remaining_score - rawValue
      init == [playerId |-> playerId, segment |-> segment, multiplier |-> multiplier,
               rawValue |-> 0, isBust |-> FALSE, newScore |-> player.remaining_score]
  IN  IF segment = 0 THEN [game |-> gameState, result |-> init]
      ELSE IF newScore < 0 \/ newScore = 1
      THEN [game |-> gameState,
            result |-> [init EXCEPT !.rawValue = rawValue, !.isBust = TRUE]]
      ELSE [game |-> [gameState EXCEPT !.players[i].remaining_score = newScore],
            result |-> [init EXCEPT !.rawValue = rawValue, !.newScore = newScore]]

process01Throw(gameState, playerId, segment, multiplier) ==
  LET i == FindPlayer(gameState.players, playerId)
      player == gameState.players[i]
      rawValue == segment * multiplier
      newScore == player.remaining_score - rawValue
      init == [playerId |-> playerId, segment |-> segment, multiplier |-> multiplier,
               rawValue |-> 0, isBust |-> FALSE, newScore |-> player.remaining_score]
  IN  IF segment = 0 THEN [game |-> gameState, result |-> init]
      ELSE IF newScore < 0 \/ newScore = 1 \/ (newScore = 0 /\ multiplier # 2)
      THEN [game |-> gameState,
            result |-> [init EXCEPT !.rawValue = rawValue, !.isBust = TRUE]]
      ELSE [game |-> [gameState EXCEPT !.players[i].remaining_score = newScore],
            result |-> [init EXCEPT !.rawValue = rawValue, !.newScore = newScore]]

check01Complete(gameState) ==
  LET zero == {i \in 1..Len(gameState.players) :
                 gameState.players[i].remaining_score = 0}
  IN  IF zero # {}
      THEN [winnerId |-> gameState.players[Min(zero)].id,
            winnerUserId |-> gameState.players[Min(zero)].user_id,
            reason |-> "checked_out"]
      ELSE NoPlayer

\* processAroundTheWorldThrow moving the target on by the multiplier
processAroundTheWorldThrow_ByMultiplier(gameState, playerId, segment, multiplier) ==
  LET i == FindPlayer(gameState.players, playerId)
      player == gameState.players[i]
      targetSegment == IF player.current_target = 21 THEN 25 ELSE player.current_target
  IN  IF segment = targetSegment
      THEN [game |-> [gameState EXCEPT !.players[i].current_target = @ + multiplier],
            result |-> [playerId |-> playerId, segment |-> segment,
                        multiplier |-> multiplier, hit |-> TRUE,
                        newTarget |-> player.current_target + multiplier]]
      ELSE [game |-> gameState,
            result |-> [playerId |-> playerId, segment |-> segment,
                        multiplier |-> multiplier, hit |-> FALSE,
                        newTarget |-> player.current_target]]

processAroundTheWorldThrow(gameState, playerId, segment, multiplier) ==
  LET i == FindPlayer(gameState.players, playerId)
      player == gameState.players[i]
      targetSegment == IF player.current_target = 21 THEN 25 ELSE player.current_target
  IN  IF segment = targetSegment
      THEN [game |-> [gameState EXCEPT !.players[i].current_target = @ + 1],
            result |-> [playerId |-> playerId, segment |-> segment,
                        multiplier |-> multiplier, hit |-> TRUE,
                        newTarget |-> player.current_target + 1]]
      ELSE [game |-> gameState,
            result |-> [playerId |-> playerId, segment |-> segment,
                        multiplier |-> multiplier, hit |-> FALSE,
                        newTarget |-> player.current_target]]

checkAroundTheWorldComplete(gameState) ==
  LET done == {i \in 1..Len(gameState.players) :
                 gameState.players[i].current_target > 21}
  IN  IF done # {}
      THEN [winnerId |-> gameState.players[Min(done)].id,
            winnerUserId |-> gameState.players[Min(done)].user_id,
            reason |-> "completed_sequence"]
      ELSE NoPlayer

\* advanceTurn passing the turn on after two darts
advanceTurn_TwoDarts(gameState) ==
  IF gameState.current_dart < 2
  THEN [gameState EXCEPT !.current_dart = @ + 1]
  ELSE [gameState EXCEPT
          !.current_dart = 1,
          !.current_player_index = (@ + 1) % Len(gameState.players),
          !.current_turn = @ + 1]

\* advanceTurn stepping the player index without the modulo
advanceTurn_NoModulo(gameState) ==
  IF gameState.current_dart < 3
  THEN [gameState EXCEPT !.current_dart = @ + 1]
  ELSE [gameState EXCEPT
          !.current_dart = 1,
          !.current_player_index = @ + 1,
          !.current_turn = @ + 1]

advanceTurn(gameState) ==
  IF gameState.current_dart < 3
  THEN [gameState EXCEPT !.current_dart = @ + 1]
  ELSE [gameState EXCEPT
          !.current_dart = 1,
          !.current_player_index = (@ + 1) % Len(gameState.players),
          !.current_turn = @ + 1]

\* reverseTurn without the step back over a turn boundary
reverseTurn_NoWrap(gameState) ==
  IF gameState.current_dart > 1
  THEN [gameState EXCEPT !.current_dart = @ - 1]
  ELSE [gameState EXCEPT !.current_dart = 3]

reverseTurn(gameState) ==
  IF gameState.current_dart > 1
  THEN [gameState EXCEPT !.current_dart = @ - 1]
  ELSE [gameState EXCEPT
          !.current_dart = 3,
          !.current_player_index =
             (@ - 1 + Len(gameState.players)) % Len(gameState.players),
          !.current_turn = IF @ > 1 THEN @ - 1 ELSE @]

processThrow(gameState, playerId, segment, multiplier) ==
  IF gameState.game_type = "Cricket"
  THEN processCricketThrow(gameState, playerId, segment, multiplier)
  ELSE IF gameState.game_type \in GameTypes01
  THEN process01Throw(gameState, playerId, segment, multiplier)
  ELSE processAroundTheWorldThrow(gameState, playerId, segment, multiplier)

checkGameComplete(gameState) ==
  IF gameState.game_type = "Cricket" THEN checkCricketComplete(gameState)
  ELSE IF gameState.game_type \in GameTypes01 THEN check01Complete(gameState)
  ELSE IF gameState.game_type = "Around the World"
  THEN checkAroundTheWorldComplete(gameState)
  ELSE NoPlayer

handleBust(gameState, playerId, turnStartScore) ==
  LET i == FindPlayer(gameState.players, playerId)
  IN  IF i # 0 THEN [gameState EXCEPT !.players[i].remaining_score = turnStartScore]
      ELSE gameState

calculateRawValue(segment, multiplier) ==
  IF segment = 0 THEN 0 ELSE segment * multiplier

\* throwResult.isBust: undefined (falsy) in the results of Cricket and Around the World
IsBust(result) == "isBust" \in DOMAIN result /\ result.isBust

----------------------------------------------------------------------------
\* Database layer (db.js): the three live tables and the liveGames helper.
\* The operators that write take the table and give the table written.

PlayerRow(gameId, order, userId, remainingScore) ==
  [id |-> <<gameId, order>>, live_game_id |-> gameId, user_id |-> userId,
   player_order |-> order,
   marks |-> [n \in CRICKET_NUMBERS |-> 0], cricket_points |-> 0,
   remaining_score |-> remainingScore, current_target |-> 1]

GameRow(gameId, gameType, startingScore, createdBy) ==
  [id |-> gameId, game_type |-> gameType, status |-> "waiting",
   starting_score |-> startingScore,
   current_player_index |-> 0, current_dart |-> 1, current_turn |-> 1,
   created_by |-> createdBy, winner_player_id |-> NoPlayer]

\* liveGames.create: the rows it inserts, players in the order supplied
CreatePlayers(gameId, gameType, startingScore, playerUserIds) ==
  [i \in 1..Len(playerUserIds) |->
     PlayerRow(gameId, i - 1, playerUserIds[i],
               IF gameType \in GameTypes01 THEN startingScore ELSE NULL)]

\* ORDER BY throw_order (rows of equal order in insertion order)
RECURSIVE SortRows(_)
SortRows(rows) ==
  IF rows = <<>> THEN <<>>
  ELSE LET i == Min({k \in 1..Len(rows) :
                       \A j \in 1..Len(rows) : rows[k].throw_order <= rows[j].throw_order})
       IN  <<rows[i]>> \o SortRows(RemoveAt(rows, i))

SortThrows(rows) ==
  IF \A k \in 1..(Len(rows) - 1) : rows[k].throw_order <= rows[k + 1].throw_order
  THEN rows
  ELSE SortRows(rows)

\* findById reading every match as being played
findByIdIn_Playing(games, players, throws, id) ==
  IF id \in DOMAIN games
  THEN [id |-> id,
        game_type |-> games[id].game_type,
        status |-> "playing",
        starting_score |-> games[id].starting_score,
        current_player_index |-> games[id].current_player_index,
        current_dart |-> games[id].current_dart,
        current_turn |-> games[id].current_turn,
        created_by |-> games[id].created_by,
        winner_player_id |-> games[id].winner_player_id,
        players |-> players[id],
        throws |-> SortThrows(throws[id])]
  ELSE NoGame

\* liveGames.findById over given tables
findByIdIn(games, players, throws, id) ==
  IF id \in DOMAIN games
  THEN [id |-> id,
        game_type |-> games[id].game_type,
        status |-> games[id].status,
        starting_score |-> games[id].starting_score,
        current_player_index |-> games[id].current_player_index,
        current_dart |-> games[id].current_dart,
        current_turn |-> games[id].current_turn,
        created_by |-> games[id].created_by,
        winner_player_id |-> games[id].winner_player_id,
        players |-> players[id],
        throws |-> SortThrows(throws[id])]
  ELSE NoGame

findById(id) == findByIdIn(live_games, live_game_players, live_game_throws, id)

start(games, id) ==
  [g \in DOMAIN games |-> IF g = id THEN [games[g] EXCEPT !.status = "playing"]
                          ELSE games[g]]

\* finish writing status 'waiting'
finish_Waiting(games, id, winnerPlayerId) ==
  [g \in DOMAIN games |->
     IF g = id THEN [games[g] EXCEPT !.status = "waiting",
                                     !.winner_player_id = winnerPlayerId]
     ELSE games[g]]

\* finish writing the winner and leaving the status
finish_KeepStatus(games, id, winnerPlayerId) ==
  [g \in DOMAIN games |->
     IF g = id THEN [games[g] EXCEPT !.winner_player_id = winnerPlayerId]
     ELSE games[g]]

finish(games, id, winnerPlayerId) ==
  [g \in DOMAIN games |->
     IF g = id THEN [games[g] EXCEPT !.status = "finished",
                                     !.winner_player_id = winnerPlayerId]
     ELSE games[g]]

updateTurnState(games, id, playerIndex, dart, turn) ==
  [g \in DOMAIN games |->
     IF g = id THEN [games[g] EXCEPT !.current_player_index = playerIndex,
                                     !.current_dart = dart,
                                     !.current_turn = turn]
     ELSE games[g]]

\* DELETE FROM live_games WHERE id = ?, with ON DELETE CASCADE on both child tables
\* liveGames.delete that deletes nothing
deleteGame_Keep(table, id) == table

deleteGame(table, id) == [g \in DOMAIN table \ {id} |-> table[g]]

\* The least k for which no stored throw of the game has id <<gameId, k>>
FreshThrowId(throws, gameId) ==
  <<gameId, Min({k \in 1..(Len(throws[gameId]) + 1) :
                   \A j \in 1..Len(throws[gameId]) : throws[gameId][j].id # <<gameId, k>>})>>

\* addThrow recording every throw as dart 1 of its turn
addThrow_FirstDart(throws, gameId, playerId, turnNumber, dartInTurn, segment, multiplier, rawValue, isBust, enteredBy) ==
  LET throwCount == Len(throws[gameId])
  IN  [throws EXCEPT ![gameId] = Append(@,
         [id |-> FreshThrowId(throws, gameId), live_game_id |-> gameId,
          player_id |-> playerId, throw_order |-> throwCount + 1,
          turn_number |-> turnNumber, dart_in_turn |-> 1,
          segment |-> segment, multiplier |-> multiplier, raw_value |-> rawValue,
          is_bust |-> isBust, entered_by |-> enteredBy])]

addThrow(throws, gameId, playerId, turnNumber, dartInTurn, segment, multiplier, rawValue, isBust, enteredBy) ==
  LET throwCount == Len(throws[gameId])
  IN  [throws EXCEPT ![gameId] = Append(@,
         [id |-> FreshThrowId(throws, gameId), live_game_id |-> gameId,
          player_id |-> playerId, throw_order |-> throwCount + 1,
          turn_number |-> turnNumber, dart_in_turn |-> dartInTurn,
          segment |-> segment, multiplier |-> multiplier, raw_value |-> rawValue,
          is_bust |-> isBust, entered_by |-> enteredBy])]

\* getLastThrow reading the oldest throw instead of the newest
getLastThrow_Oldest(throws, gameId) ==
  LET sorted == SortThrows(throws[gameId])
  IN  IF sorted = <<>> THEN <<>> ELSE sorted[1]

\* getLastThrow giving a row of the first participant when the game has no throw
getLastThrow_Phantom(throws, gameId) ==
  LET sorted == SortThrows(throws[gameId])
  IN  IF sorted = <<>>
      THEN [id |-> <<gameId, 0>>, live_game_id |-> gameId, player_id |-> <<gameId, 0>>,
            throw_order |-> 0, turn_number |-> 1, dart_in_turn |-> 1, segment |-> 0,
            multiplier |-> 1, raw_value |-> 0, is_bust |-> FALSE, entered_by |-> "u1"]
      ELSE sorted[Len(sorted)]

\* ORDER BY throw_order DESC LIMIT 1: <<>> when the game has no throw
getLastThrow(throws, gameId) ==
  LET sorted == SortThrows(throws[gameId])
  IN  IF sorted = <<>> THEN <<>> ELSE sorted[Len(sorted)]

\* deleteThrow emptying the throws of the match the throw belongs to
deleteThrow_WholeMatch(throws, throwId) ==
  [g \in DOMAIN throws |->
     IF \E k \in 1..Len(throws[g]) : throws[g][k].id = throwId THEN <<>> ELSE throws[g]]

deleteThrow(throws, throwId) ==
  [g \in DOMAIN throws |-> SelectSeq(throws[g], LAMBDA t : t.id # throwId)]

getThrowsByPlayerAndTurn(throws, gameId, playerId, turnNumber) ==
  SelectSeq(throws[gameId],
            LAMBDA t : t.player_id = playerId /\ t.turn_number = turnNumber)

\* SELECT * FROM live_game_players WHERE id = ?: <<>> when there is no such row
getPlayer(players, playerId) ==
  LET hits == {g \in DOMAIN players : FindPlayer(players[g], playerId) # 0}
  IN  IF hits = {} THEN <<>>
      ELSE LET g == CHOOSE g \in hits : TRUE
           IN  players[g][FindPlayer(players[g], playerId)]

updateCricketMarks(players, playerId, marks, points) ==
  [g \in DOMAIN players |->
     [i \in 1..Len(players[g]) |->
        IF players[g][i].id = playerId
        THEN [players[g][i] EXCEPT !.marks = marks, !.cricket_points = points]
        ELSE players[g][i]]]

\* updateRemainingScore without its WHERE id = ?
updateRemainingScore_AllRows(players, playerId, score) ==
  [g \in DOMAIN players |->
     [i \in 1..Len(players[g]) |->
        IF players[g][i].live_game_id = playerId[1]
        THEN [players[g][i] EXCEPT !.remaining_score = score]
        ELSE players[g][i]]]

updateRemainingScore(players, playerId, score) ==
  [g \in DOMAIN players |->
     [i \in 1..Len(players[g]) |->
        IF players[g][i].id = playerId
        THEN [players[g][i] EXCEPT !.remaining_score = score]
        ELSE players[g][i]]]

updateCurrentTarget(players, playerId, target) ==
  [g \in DOMAIN players |->
     [i \in 1..Len(players[g]) |->
        IF players[g][i].id = playerId
        THEN [players[g][i] EXCEPT !.current_target = target]
        ELSE players[g][i]]]

----------------------------------------------------------------------------
\* WebSocket layer (websocket.js)

UserName(userId) == <<"name", userId>>

\* The record built by formatGameState
formatGameState(game) ==
  [id |-> game.id, game_type |-> game.game_type, status |-> game.status,
   starting_score |-> game.starting_score,
   current_player_index |-> game.current_player_index,
   current_dart |-> game.current_dart, current_turn |-> game.current_turn,
   created_by |-> game.created_by, winner_player_id |-> game.winner_player_id,
   players |-> [i \in 1..Len(game.players) |->
                  [id |-> game.players[i].id, user_id |-> game.players[i].user_id,
                   name |-> UserName(game.players[i].user_id),
                   player_order |-> game.players[i].player_order,
                   marks |-> game.players[i].marks,
                   cricket_points |-> game.players[i].cricket_points,
                   remaining_score |-> game.players[i].remaining_score,
                   current_target |-> game.players[i].current_target]],
   throws |-> game.throws]

\* A send is [to |-> the connections ws.send() is called on, msg |-> the message]
sendError(ws, message) ==
  [to |-> {ws}, msg |-> [type |-> "error", payload |-> [message |-> message]]]

\* sendGameState leaving the recorded throws out of the snapshot
sendGameState_NoThrows(ws, game) ==
  [to |-> {ws},
   msg |-> [type |-> "game_state",
            payload |-> formatGameState([game EXCEPT !.throws = <<>>])]]

sendGameState(ws, game) ==
  [to |-> {ws}, msg |-> [type |-> "game_state", payload |-> formatGameState(game)]]

\* broadcastToRoom reaching the clients of every room
broadcastToRoom_AllRooms(rooms, gameId, message, excludeWs) ==
  [to |-> {client \in UNION {rooms[g] : g \in DOMAIN rooms} :
             client # excludeWs /\ conns[client].open},
   msg |-> message]

\* room.forEach(client => client !== excludeWs && client.readyState === OPEN && send)
\* excludeWs is "none" for the default null
broadcastToRoom(rooms, gameId, message, excludeWs) ==
  [to |-> IF gameId \in DOMAIN rooms
          THEN {client \in rooms[gameId] : client # excludeWs /\ conns[client].open}
          ELSE {},
   msg |-> message]

\* broadcastGameState sending the match as stored before the handler's writes
broadcastGameState_Stale(rooms, gameId, game) ==
  broadcastToRoom(rooms, gameId,
                  [type |-> "game_state", payload |-> formatGameState(findById(gameId))],
                  "none")

broadcastGameState(rooms, gameId, game) ==
  broadcastToRoom(rooms, gameId,
                  [type |-> "game_state", payload |-> formatGameState(game)], "none")

\* The messages each connection received from a handler's sends, in order
RECURSIVE MsgsFor(_, _)
MsgsFor(ws, sends) ==
  IF sends = <<>> THEN <<>>
  ELSE (IF ws \in Head(sends).to THEN <<Head(sends).msg>> ELSE <<>>)
       \o MsgsFor(ws, Tail(sends))

Outbox(sends) == [ws \in DOMAIN conns |-> MsgsFor(ws, sends)]

\* History of the message handled by a step: pre is what a throw_dart that was
\* applied found (the turn triple and the row of the participant it was applied
\* to); afterThrow tells that an undo_throw that was applied came straight after
\* a throw_dart that was applied to the same match
NoPre == [triple |-> <<>>, player |-> <<>>]

Triple(game) == <<game.current_player_index, game.current_dart, game.current_turn>>

Handled(op, ws, gameId, ok, pre) ==
  [op |-> op, conn |-> ws, gameId |-> gameId, ok |-> ok, pre |-> pre,
   afterThrow |-> /\ op = "undo_throw" /\ ok
                  /\ last.op = "throw_dart" /\ last.ok /\ last.gameId = gameId]

\* A handler that only answers the sender with an error
Reject(op, ws, gameId, message) ==
  /\ sent' = Outbox(<<sendError(ws, message)>>)
  /\ last' = Handled(op, ws, gameId, FALSE, NoPre)
  /\ UNCHANGED <<live_games, live_game_players, live_game_throws, conns, gameRooms, turnStart>>

\* leaveGame(ws): the rooms left behind and the sends made; ws.gameId is reset by
\* the caller's conns update
\* leaveGame that leaves the connection in its room
LeftRooms_Stay(ws) == gameRooms

LeftRooms(ws) ==
  LET gid == conns[ws].gameId
  IN  IF gid # "none" /\ gid \in DOMAIN gameRooms
      THEN IF gameRooms[gid] \ {ws} = {}
           THEN [g \in DOMAIN gameRooms \ {gid} |-> gameRooms[g]]
           ELSE [gameRooms EXCEPT ![gid] = @ \ {ws}]
      ELSE gameRooms

LeftSends(ws) ==
  LET gid == conns[ws].gameId
  IN  IF gid # "none" /\ gid \in DOMAIN gameRooms
      THEN <<broadcastToRoom([gameRooms EXCEPT ![gid] = @ \ {ws}], gid,
                             [type |-> "player_left",
                              payload |-> [userId |-> conns[ws].userId,
                                           userName |-> conns[ws].userName]],
                             "none")>>
      ELSE <<>>

LeftGameId(ws) ==
  LET gid == conns[ws].gameId
  IN  IF gid # "none" /\ gid \in DOMAIN gameRooms THEN "none" ELSE gid

----------------------------------------------------------------------------
\* Message handlers. Each is the whole of handleMessage's case for one message
\* from the open connection ws.

handleJoinGame(ws, gameId) ==
  /\ conns[ws].open
  /\ LET game == findById(gameId)
     IN  IF game = NoGame THEN Reject("join_game", ws, gameId, "Game not found")
         ELSE
           LET left == LeftRooms(ws)
               joined == IF gameId \in DOMAIN left
                         THEN [left EXCEPT ![gameId] = @ \cup {ws}]
                         ELSE [g \in DOMAIN left \cup {gameId} |->
                                 IF g = gameId THEN {ws} ELSE left[g]]
           IN  /\ gameRooms' = joined
               /\ conns' = [conns EXCEPT ![ws].gameId = gameId]
               /\ sent' = Outbox(LeftSends(ws) \o
                    <<sendGameState(ws, game),
                      broadcastToRoom(joined, gameId,
                        [type |-> "player_joined",
                         payload |-> [userId |-> conns[ws].userId,
                                      userName |-> conns[ws].userName]], ws)>>)
               /\ last' = Handled("join_game", ws, gameId, TRUE, NoPre)
               /\ UNCHANGED <<live_games, live_game_players, live_game_throws, turnStart>>

\* handleLeaveGame that deletes the match of a room it leaves empty
handleLeaveGame_Abandon(ws) ==
  /\ conns[ws].open
  /\ gameRooms' = LeftRooms(ws)
  /\ conns' = [conns EXCEPT ![ws].gameId = LeftGameId(ws)]
  /\ sent' = Outbox(LeftSends(ws))
  /\ last' = Handled("leave_game", ws, conns[ws].gameId, TRUE, NoPre)
  /\ IF conns[ws].gameId \in DOMAIN gameRooms /\ conns[ws].gameId \notin DOMAIN LeftRooms(ws)
     THEN /\ live_games' = deleteGame(live_games, conns[ws].gameId)
          /\ live_game_players' = deleteGame(live_game_players, conns[ws].gameId)
          /\ live_game_throws' = deleteGame(live_game_throws, conns[ws].gameId)
          /\ turnStart' = deleteGame(turnStart, conns[ws].gameId)
     ELSE UNCHANGED <<live_games, live_game_players, live_game_throws, turnStart>>

handleLeaveGame(ws) ==
  /\ conns[ws].open
  /\ gameRooms' = LeftRooms(ws)
  /\ conns' = [conns EXCEPT ![ws].gameId = LeftGameId(ws)]
  /\ sent' = Outbox(LeftSends(ws))
  /\ last' = Handled("leave_game", ws, conns[ws].gameId, TRUE, NoPre)
  /\ UNCHANGED <<live_games, live_game_players, live_game_throws, turnStart>>

\* Sum of raw_value over the thrower's non-bust throws of earlier turns
RECURSIVE EarlierScored(_, _, _)
EarlierScored(throws, playerId, currentTurn) ==
  IF throws = <<>> THEN 0
  ELSE (IF /\ Head(throws).player_id = playerId
           /\ Head(throws).turn_number < currentTurn
           /\ ~Head(throws).is_bust
        THEN Head(throws).raw_value ELSE 0)
       + EarlierScored(Tail(throws), playerId, currentTurn)

\* The value handleThrowDart gives turnStartScore on a bust: [known, score]
\* (known = FALSE is the null it starts with)
TurnStartScore(game, currentPlayer, turnThrows) ==
  LET is01 == game.game_type \in GameTypes01
      atFirstDart == is01 /\ game.current_dart = 1
  IN  IF Len(turnThrows) = 0 /\ atFirstDart
      THEN [known |-> TRUE, score |-> currentPlayer.remaining_score]
      ELSE IF Len(turnThrows) > 0
      THEN [known |-> TRUE,
            score |-> (IF game.starting_score = 0 THEN 501 ELSE game.starting_score)
                      - EarlierScored(game.throws, currentPlayer.id, game.current_turn)]
      ELSE [known |-> FALSE, score |-> currentPlayer.remaining_score]

\* History turnStart: a throw at dart 1 records the score it found; an undo that
\* goes back into an earlier turn forgets it
Unknown == [known |-> FALSE, turn |-> 0, score |-> 0]

ThrownAt(ts, game, currentPlayer) ==
  IF game.current_dart = 1
  THEN [known |-> game.game_type \in GameTypes01, turn |-> game.current_turn,
        score |-> IF game.game_type \in GameTypes01 THEN currentPlayer.remaining_score ELSE 0]
  ELSE ts

UndoneTo(ts, reversed) ==
  IF ts.known /\ ts.turn = reversed.current_turn THEN ts ELSE Unknown

\* throw_recorded's payload: {throwId, ..., enteredBy, ...throwResult}
Spread(base, over) ==
  [k \in DOMAIN base \cup DOMAIN over |-> IF k \in DOMAIN over THEN over[k] ELSE base[k]]

handleThrowDart(ws, gameId, segment, multiplier, maxThrows) ==
  /\ conns[ws].open
  /\ LET game == findById(gameId)
     IN  IF game = NoGame
         THEN Reject("throw_dart", ws, gameId, "Game not found")
         ELSE IF game.status # "playing"
         THEN Reject("throw_dart", ws, gameId, "Game is not in progress")
         ELSE IF game.current_player_index + 1 \notin 1..Len(game.players)
         THEN Reject("throw_dart", ws, gameId, "Invalid game state")
         ELSE
           LET idx == game.current_player_index + 1
               currentPlayer == game.players[idx]
               mult == IF multiplier = 0 THEN 1 ELSE multiplier
               processed == processThrow(game, currentPlayer.id, segment, mult)
               throwResult == processed.result
               rawValue == calculateRawValue(segment, mult)
               turnThrows == getThrowsByPlayerAndTurn(live_game_throws, gameId,
                                                      currentPlayer.id, game.current_turn)
               turnStartScore == TurnStartScore(game, currentPlayer, turnThrows)
               restore == IsBust(throwResult) /\ turnStartScore.known
               game2 == IF restore
                        THEN handleBust(processed.game, currentPlayer.id, turnStartScore.score)
                        ELSE processed.game
               player2 == game2.players[idx]
               players1 == IF restore
                           THEN updateRemainingScore(live_game_players, currentPlayer.id,
                                                     turnStartScore.score)
                           ELSE live_game_players
               throws1 == addThrow(live_game_throws, gameId, currentPlayer.id,
                                   game.current_turn, game.current_dart, segment, mult,
                                   rawValue, IsBust(throwResult), conns[ws].userId)
               throwId == FreshThrowId(live_game_throws, gameId)
               players2 ==
                 IF game.game_type = "Cricket"
                 THEN updateCricketMarks(players1, currentPlayer.id, player2.marks,
                                         player2.cricket_points)
                 ELSE IF game.game_type \in GameTypes01
                 THEN IF ~IsBust(throwResult)
                      THEN updateRemainingScore(players1, currentPlayer.id,
                                                player2.remaining_score)
                      ELSE players1
                 ELSE IF game.game_type = "Around the World"
                 THEN updateCurrentTarget(players1, currentPlayer.id,
                                          player2.current_target)
                 ELSE players1
               winner == checkGameComplete(game2)
               turnInfo == advanceTurn(game2)
               games2 == IF winner # NoPlayer
                         THEN finish(live_games, gameId, winner.winnerId)
                         ELSE updateTurnState(live_games, gameId,
                                              turnInfo.current_player_index,
                                              turnInfo.current_dart,
                                              turnInfo.current_turn)
               event == IF winner # NoPlayer
                        THEN [type |-> "game_ended",
                              payload |-> [winnerId |-> winner.winnerId,
                                           winnerUserId |-> winner.winnerUserId,
                                           reason |-> winner.reason]]
                        ELSE [type |-> "throw_recorded",
                              payload |-> Spread(
                                [throwId |-> throwId, playerId |-> currentPlayer.id,
                                 playerName |-> UserName(currentPlayer.user_id),
                                 segment |-> segment, multiplier |-> multiplier,
                                 rawValue |-> rawValue, isBust |-> IsBust(throwResult),
                                 enteredBy |-> conns[ws].userName],
                                throwResult)]
           IN  /\ Len(game.throws) < maxThrows
               /\ live_games' = games2
               /\ live_game_players' = players2
               /\ live_game_throws' = throws1
               /\ last' = Handled("throw_dart", ws, gameId, TRUE,
                                  [triple |-> Triple(game), player |-> currentPlayer])
               /\ sent' = Outbox(<<broadcastToRoom(gameRooms, gameId, event, "none"),
                                   broadcastGameState(gameRooms, gameId,
                                     findByIdIn(games2, players2, throws1, gameId))>>)
               /\ turnStart' = [turnStart EXCEPT ![gameId] = ThrownAt(@, game, currentPlayer)]
               /\ UNCHANGED <<conns, gameRooms>>

\* handleThrowDart for a payload whose segment is the JSON value true. In the
\* arithmetic of processThrow and calculateRawValue true counts as 1, it is
\* truthy, no Cricket number and no Around the World target; the statement of
\* addThrow cannot bind a boolean and throws, after the bust handling has written
\* and before anything else is. The catch of ws.on('message') answers the sender.
handleThrowDartUnbindable(ws, gameId, multiplier) ==
  /\ conns[ws].open
  /\ LET game == findById(gameId)
     IN  IF game = NoGame
         THEN Reject("throw_dart", ws, gameId, "Game not found")
         ELSE IF game.status # "playing"
         THEN Reject("throw_dart", ws, gameId, "Game is not in progress")
         ELSE IF game.current_player_index + 1 \notin 1..Len(game.players)
         THEN Reject("throw_dart", ws, gameId, "Invalid game state")
         ELSE
           LET currentPlayer == game.players[game.current_player_index + 1]
               mult == IF multiplier = 0 THEN 1 ELSE multiplier
               isBust == /\ game.game_type \in GameTypes01
                         /\ IsBust(process01Throw(game, currentPlayer.id, 1, mult).result)
               turnThrows == getThrowsByPlayerAndTurn(live_game_throws, gameId,
                                                      currentPlayer.id, game.current_turn)
               turnStartScore == TurnStartScore(game, currentPlayer, turnThrows)
           IN  /\ live_game_players' =
                    IF isBust /\ turnStartScore.known
                    THEN updateRemainingScore(live_game_players, currentPlayer.id,
                                              turnStartScore.score)
                    ELSE live_game_players
               /\ sent' = Outbox(<<sendError(ws, "Invalid message format")>>)
               /\ last' = Handled("throw_dart", ws, gameId, FALSE, NoPre)
               /\ UNCHANGED <<live_games, live_game_throws, conns, gameRooms, turnStart>>

\* A message that no handler takes: undecodable JSON or a missing payload (the
\* catch of ws.on('message')), a type that handleMessage does not know, a payload
\* without gameId
BadMessages ==
  {"Invalid message format", "Unknown message type", "Game ID required"}

handleBadMessage(ws, message) ==
  /\ conns[ws].open
  /\ Reject("malformed", ws, "none", message)

Max0(x) == IF x < 0 THEN 0 ELSE x

\* The Cricket branch of handleUndoThrow on the row getPlayer returned:
\* player[`marks_${markField}`] || player.marks_bull || 0 reads marks_bull when the
\* segment's own counter is 0 or the row has no such column (segments 1..14);
\* a counter written for a segment without a column is not stored
UndoCricket(player, lastThrow) ==
  IF lastThrow.segment = 0 THEN player
  ELSE
    LET seg == lastThrow.segment
        own == IF seg \in CRICKET_NUMBERS THEN player.marks[seg] ELSE 0
        currentMarks == IF own # 0 THEN own ELSE player.marks[25]
        newMarks == Max0(currentMarks - lastThrow.multiplier)
        marksBeforeThrow == currentMarks - lastThrow.multiplier
        points == IF marksBeforeThrow >= 3 THEN lastThrow.multiplier * seg
                  ELSE IF currentMarks > 3 THEN (currentMarks - 3) * seg
                  ELSE 0
        marks2 == IF seg \in CRICKET_NUMBERS
                  THEN [player.marks EXCEPT ![seg] = newMarks]
                  ELSE player.marks
    IN  [player EXCEPT !.marks = marks2,
                       !.cricket_points = Max0(player.cricket_points - points)]

handleUndoThrow(ws, gameId) ==
  /\ conns[ws].open
  /\ LET game == findById(gameId)
         lastThrow == getLastThrow(live_game_throws, gameId)
     IN  IF game = NoGame
         THEN Reject("undo_throw", ws, gameId, "Game not found")
         ELSE IF game.status # "playing"
         THEN Reject("undo_throw", ws, gameId, "Game is not in progress")
         ELSE IF lastThrow = <<>>
         THEN Reject("undo_throw", ws, gameId, "No throws to undo")
         ELSE IF getPlayer(live_game_players, lastThrow.player_id) = <<>>
         THEN Reject("undo_throw", ws, gameId, "Player not found")
         ELSE
           LET player == getPlayer(live_game_players, lastThrow.player_id)
               reversed == reverseTurn(game)
               previousTarget == player.current_target - 1
               expectedSegment == IF previousTarget = 21 THEN 25 ELSE previousTarget
               players1 ==
                 IF game.game_type = "Cricket"
                 THEN updateCricketMarks(live_game_players, player.id,
                                         UndoCricket(player, lastThrow).marks,
                                         UndoCricket(player, lastThrow).cricket_points)
                 ELSE IF game.game_type \in GameTypes01
                 THEN IF ~lastThrow.is_bust
                      THEN updateRemainingScore(live_game_players, player.id,
                             player.remaining_score + lastThrow.raw_value)
                      ELSE live_game_players
                 ELSE IF game.game_type = "Around the World"
                 THEN IF lastThrow.segment = expectedSegment /\ previousTarget >= 1
                      THEN updateCurrentTarget(live_game_players, player.id, previousTarget)
                      ELSE live_game_players
                 ELSE live_game_players
               throws1 == deleteThrow(live_game_throws, lastThrow.id)
               games1 == updateTurnState(live_games, gameId,
                                         reversed.current_player_index,
                                         reversed.current_dart, reversed.current_turn)
           IN  /\ live_game_players' = players1
               /\ live_game_throws' = throws1
               /\ live_games' = games1
               /\ last' = Handled("undo_throw", ws, gameId, TRUE, NoPre)
               /\ sent' = Outbox(<<broadcastToRoom(gameRooms, gameId,
                                     [type |-> "throw_undone",
                                      payload |-> [throwId |-> lastThrow.id,
                                                   playerId |-> player.id,
                                                   undoneBy |-> conns[ws].userName]],
                                     "none"),
                                   broadcastGameState(gameRooms, gameId,
                                     findByIdIn(games1, players1, throws1, gameId))>>)
               /\ turnStart' = [turnStart EXCEPT ![gameId] = UndoneTo(@, reversed)]
               /\ UNCHANGED <<conns, gameRooms>>

\* handleStartGame without the comparison of created_by with ws.userId
handleStartGame_AnySender(ws, gameId) ==
  /\ conns[ws].open
  /\ LET game == findById(gameId)
     IN  IF game = NoGame
         THEN Reject("start_game", ws, gameId, "Game not found")
         ELSE IF game.status # "waiting"
         THEN Reject("start_game", ws, gameId, "Game already started")
         ELSE
           /\ live_games' = start(live_games, gameId)
           /\ last' = Handled("start_game", ws, gameId, TRUE, NoPre)
           /\ sent' = Outbox(<<broadcastToRoom(gameRooms, gameId,
                                 [type |-> "game_started", payload |-> [gameId |-> gameId]],
                                 "none"),
                               broadcastGameState(gameRooms, gameId,
                                 findByIdIn(start(live_games, gameId), live_game_players,
                                            live_game_throws, gameId))>>)
           /\ UNCHANGED <<live_game_players, live_game_throws, conns, gameRooms, turnStart>>

handleStartGame(ws, gameId) ==
  /\ conns[ws].open
  /\ LET game == findById(gameId)
     IN  IF game = NoGame
         THEN Reject("start_game", ws, gameId, "Game not found")
         ELSE IF game.created_by # conns[ws].userId
         THEN Reject("start_game", ws, gameId, "Only the game creator can start the game")
         ELSE IF game.status # "waiting"
         THEN Reject("start_game", ws, gameId, "Game already started")
         ELSE
           /\ live_games' = start(live_games, gameId)
           /\ last' = Handled("start_game", ws, gameId, TRUE, NoPre)
           /\ sent' = Outbox(<<broadcastToRoom(gameRooms, gameId,
                                 [type |-> "game_started", payload |-> [gameId |-> gameId]],
                                 "none"),
                               broadcastGameState(gameRooms, gameId,
                                 findByIdIn(start(live_games, gameId), live_game_players,
                                            live_game_throws, gameId))>>)
           /\ UNCHANGED <<live_game_players, live_game_throws, conns, gameRooms, turnStart>>

handleEndGame(ws, gameId) ==
  /\ conns[ws].open
  /\ LET game == findById(gameId)
     IN  IF game = NoGame
         THEN Reject("end_game", ws, gameId, "Game not found")
         ELSE IF game.created_by # conns[ws].userId
         THEN Reject("end_game", ws, gameId, "Only the game creator can end the game")
         ELSE
           /\ live_games' = deleteGame(live_games, gameId)
           /\ live_game_players' = deleteGame(live_game_players, gameId)
           /\ live_game_throws' = deleteGame(live_game_throws, gameId)
           /\ last' = Handled("end_game", ws, gameId, TRUE, NoPre)
           /\ sent' = Outbox(<<broadcastToRoom(gameRooms, gameId,
                                 [type |-> "game_abandoned",
                                  payload |-> [gameId |-> gameId,
                                               abandonedBy |-> conns[ws].userName]],
                                 "none")>>)
           /\ turnStart' = deleteGame(turnStart, gameId)
           /\ UNCHANGED <<conns, gameRooms>>

----------------------------------------------------------------------------
\* Specifications

Socket(userId) ==
  [userId |-> userId, userName |-> UserName(userId), isAlive |-> TRUE,
   gameId |-> "none", open |-> TRUE]

NoMessage ==
  [op |-> "none", conn |-> "none", gameId |-> "none", ok |-> FALSE, pre |-> NoPre,
   afterThrow |-> FALSE]

\* The state after POST /live-games created the matches `types` (gameId -> variant)
\* for players u1, u2 and the sockets `sockets` (connection -> user) were accepted
Created(types, sockets) ==
  /\ live_games = [g \in DOMAIN types |->
       GameRow(g, types[g], IF types[g] \in GameTypes01 THEN StartScore ELSE NULL, "u1")]
  /\ live_game_players = [g \in DOMAIN types |->
       CreatePlayers(g, types[g], StartScore, <<"u1", "u2">>)]
  /\ live_game_throws = [g \in DOMAIN types |-> <<>>]
  /\ conns = [c \in DOMAIN sockets |-> Socket(sockets[c])]
  /\ gameRooms = [g \in {} |-> {}]
  /\ sent = [c \in DOMAIN sockets |-> <<>>]
  /\ last = NoMessage
  /\ turnStart = [g \in DOMAIN types |-> Unknown]

\* One match of any variant, scored from one connection
Init ==
  \E type \in {"301", "Cricket", "Around the World"} :
    Created([g \in {"A"} |-> type], [c \in {"c1"} |-> "u1"])

ThrowDart ==
  \E ws \in DOMAIN conns, g \in DOMAIN live_games :
    \E dart \in TurnDarts(live_games[g].game_type) :
      handleThrowDart(ws, g, dart[1], dart[2], MaxThrows)

UndoThrow == \E ws \in DOMAIN conns, g \in DOMAIN live_games : handleUndoThrow(ws, g)

StartGame == \E ws \in DOMAIN conns, g \in DOMAIN live_games : handleStartGame(ws, g)

EndGame == \E ws \in DOMAIN conns, g \in DOMAIN live_games : handleEndGame(ws, g)

Next == StartGame \/ ThrowDart \/ UndoThrow \/ EndGame

Spec == Init /\ [][Next]_vars

\* The same match with more kinds of dart and fewer throws
ThrowDartScoring ==
  \E ws \in DOMAIN conns, g \in DOMAIN live_games :
    \E dart \in ScoringDarts(live_games[g].game_type) :
      handleThrowDart(ws, g, dart[1], dart[2], MaxThrowsScoring)

NextScoring == StartGame \/ ThrowDartScoring \/ UndoThrow \/ EndGame

SpecScoring == Init /\ [][NextScoring]_vars

\* A 301 match whose clients never send undo_throw
InitThrows == Created([g \in {"A"} |-> "301"], [c \in {"c1"} |-> "u1"])

ThrowDartDeep ==
  \E ws \in DOMAIN conns, g \in DOMAIN live_games :
    \E dart \in DeepDarts : handleThrowDart(ws, g, dart[1], dart[2], MaxThrowsDeep)

NextThrows == StartGame \/ ThrowDartDeep

SpecThrows == InitThrows /\ [][NextThrows]_vars

\* Two matches, A (501) and B (Cricket), and two connections: c1 of u1, who
\* created both and throws first, and c2 of u2. Messages may name a match that
\* end_game has deleted.
RoomGames == {"A", "B"}

InitRooms ==
  Created([g \in RoomGames |-> IF g = "A" THEN "501" ELSE "Cricket"],
          [c \in {"c1", "c2"} |-> IF c = "c1" THEN "u1" ELSE "u2"])

JoinGame == \E ws \in DOMAIN conns, g \in RoomGames : handleJoinGame(ws, g)

LeaveGame == \E ws \in DOMAIN conns : handleLeaveGame(ws)

ThrowDartRooms ==
  \E ws \in DOMAIN conns, g \in RoomGames :
    \E dart \in RoomDarts(IF g = "A" THEN "501" ELSE "Cricket") :
      handleThrowDart(ws, g, dart[1], dart[2], MaxThrowsRooms)

UndoThrowRooms == \E ws \in DOMAIN conns, g \in RoomGames : handleUndoThrow(ws, g)

StartGameRooms == \E ws \in DOMAIN conns, g \in RoomGames : handleStartGame(ws, g)

EndGameRooms == \E ws \in DOMAIN conns, g \in RoomGames : handleEndGame(ws, g)

NextRooms ==
  \/ JoinGame
  \/ LeaveGame
  \/ StartGameRooms
  \/ ThrowDartRooms
  \/ UndoThrowRooms
  \/ EndGameRooms

SpecRooms == InitRooms /\ [][NextRooms]_vars

\* One 301 match scored by the connections of both of its players
InitShared ==
  Created([g \in {"A"} |-> "301"], [c \in {"c1", "c2"} |-> IF c = "c1" THEN "u1" ELSE "u2"])

ThrowDartShared ==
  \E ws \in DOMAIN conns, g \in DOMAIN live_games, dart \in TurnDarts("301") :
    handleThrowDart(ws, g, dart[1], dart[2], MaxThrowsShared)

NextShared == StartGame \/ ThrowDartShared \/ UndoThrow

SpecShared == InitShared /\ [][NextShared]_vars

\* One 301 match A and the connections of both of its players, whose messages
\* name A or the unknown match B, or are malformed
\* A throw_dart {segment: true, multiplier: 3}
ThrowDartUnbindable ==
  \E ws \in DOMAIN conns, g \in RoomGames : handleThrowDartUnbindable(ws, g, 3)

BadMessage ==
  \E ws \in DOMAIN conns, message \in BadMessages : handleBadMessage(ws, message)

NextMessages ==
  \/ JoinGame
  \/ LeaveGame
  \/ StartGameRooms
  \/ ThrowDartRooms
  \/ UndoThrowRooms
  \/ EndGameRooms
  \/ ThrowDartUnbindable
  \/ BadMessage

SpecMessages == InitShared /\ [][NextMessages]_vars

\* advanceTurn as a function: a match of P participants standing at
\* (player 0, dart 1, turn T) is advanced 3 * P times, each step being the
\* advanceTurn and updateTurnState of handleThrowDart. The history `last` keeps
\* the triple the run started from and the number of steps taken.
Advancing(from, steps) ==
  [op |-> "advanceTurn", conn |-> "none", gameId |-> "A", ok |-> TRUE,
   pre |-> [triple |-> from, player |-> <<>>], afterThrow |-> FALSE, steps |-> steps]

InitAdvance ==
  \E P \in 2..MaxPlayers, T \in 1..MaxStartTurn :
    /\ live_games = [g \in {"A"} |->
         [GameRow("A", "301", StartScore, "u1") EXCEPT !.status = "playing",
                                                       !.current_turn = T]]
    /\ live_game_players = [g \in {"A"} |->
         CreatePlayers("A", "301", StartScore, [i \in 1..P |-> <<"user", i>>])]
    /\ live_game_throws = [g \in {"A"} |-> <<>>]
    /\ conns = [c \in {"c1"} |-> Socket("u1")]
    /\ gameRooms = [g \in {} |-> {}]
    /\ sent = [c \in {"c1"} |-> <<>>]
    /\ last = Advancing(<<0, 1, T>>, 0)
    /\ turnStart = [g \in {"A"} |-> Unknown]

AdvanceTurn ==
  \E g \in DOMAIN live_games :
    LET turnInfo == advanceTurn(findById(g))
    IN  /\ last.steps < 3 * Len(live_game_players[g])
        /\ live_games' = updateTurnState(live_games, g, turnInfo.current_player_index,
                                         turnInfo.current_dart, turnInfo.current_turn)
        /\ last' = Advancing(last.pre.triple, last.steps + 1)
        /\ UNCHANGED <<live_game_players, live_game_throws, conns, gameRooms, sent,
                       turnStart>>

NextAdvance == AdvanceTurn

SpecAdvance == InitAdvance /\ [][NextAdvance]_vars

----------------------------------------------------------------------------
\* processCricketThrow and checkCricketComplete late in a Cricket match: the match
\* is being played, a participant is about to throw the first dart of a turn, both
\* participants have closed 15..19 with exactly three marks, and the marks on 20
\* and the bull and the points are what earlier turns can have left. The throws of
\* those turns are not kept: handleThrowDart reads none of them in a Cricket match.

CricketDarts == {<<0, 1>>, <<7, 1>>, <<20, 1>>, <<20, 2>>, <<20, 3>>, <<25, 1>>}

CricketRow(order, userId, marks20, marksBull, points) ==
  [PlayerRow("A", order, userId, NULL) EXCEPT
     !.marks = [n \in CRICKET_NUMBERS |->
                  IF n = 20 THEN marks20 ELSE IF n = 25 THEN marksBull ELSE 3],
     !.cricket_points = points]

\* Points come from marks beyond the third on 20; they count only if the other
\* participant had not closed 20 then, and marks never decrease
PointsPossible(player, other) ==
  LET extra == Max0(player.marks[20] - 3)
  IN  /\ player.cricket_points <= 20 * extra
      /\ other.marks[20] < 3 => player.cricket_points = 20 * extra

InitCricket ==
  \E first \in 0..1 :
    \E a20, b20 \in 0..MaxMarks, aBull, bBull \in 2..3 :
      \E aPoints, bPoints \in {20 * e : e \in 0..(MaxMarks - 3)} :
        LET a == CricketRow(0, "u1", a20, aBull, aPoints)
            b == CricketRow(1, "u2", b20, bBull, bPoints)
            game == [GameRow("A", "Cricket", NULL, "u1") EXCEPT
                       !.status = "playing", !.current_player_index = first,
                       !.current_turn = 2]
        IN  /\ PointsPossible(a, b) /\ PointsPossible(b, a)
            /\ checkCricketComplete([players |-> <<a, b>>]) = NoPlayer
            /\ live_games = [g \in {"A"} |-> game]
            /\ live_game_players = [g \in {"A"} |-> <<a, b>>]
            /\ live_game_throws = [g \in {"A"} |-> <<>>]
            /\ conns = [c \in {"c1"} |-> Socket("u1")]
            /\ gameRooms = [g \in {} |-> {}]
            /\ sent = [c \in {"c1"} |-> <<>>]
            /\ last = NoMessage
            /\ turnStart = [g \in {"A"} |-> Unknown]

ThrowDartCricket ==
  \E ws \in DOMAIN conns, g \in DOMAIN live_games :
    \E dart \in CricketDarts :
      handleThrowDart(ws, g, dart[1], dart[2], MaxThrowsCricket)

NextCricket == ThrowDartCricket

SpecCricket == InitCricket /\ [][NextCricket]_vars

----------------------------------------------------------------------------
\* processAroundTheWorldThrow and checkAroundTheWorldComplete at both ends of the
\* sequence: an Around the World match is being played, a participant is about to
\* throw the first dart of a turn, and each participant is either at target 1 or at
\* one of the last MaxBehind targets (21 stands for the bull). The throws of the
\* earlier turns are not kept, so undo_throw reaches the throws made from here on.

WorldTargets == {1} \cup ((22 - MaxBehind)..21)

WorldDarts == {<<0, 1>>, <<1, 1>>, <<20, 3>>, <<21, 1>>, <<25, 2>>}

InitWorld ==
  \E first \in 0..1 :
    \E targets \in [1..2 -> WorldTargets] :
      /\ live_games = [g \in {"A"} |->
           [GameRow("A", "Around the World", NULL, "u1") EXCEPT
              !.status = "playing", !.current_player_index = first,
              !.current_turn = 2]]
      /\ live_game_players = [g \in {"A"} |->
           [i \in 1..2 |->
              [CreatePlayers("A", "Around the World", NULL, <<"u1", "u2">>)[i] EXCEPT
                 !.current_target = targets[i]]]]
      /\ live_game_throws = [g \in {"A"} |-> <<>>]
      /\ conns = [c \in {"c1"} |-> Socket("u1")]
      /\ gameRooms = [g \in {} |-> {}]
      /\ sent = [c \in {"c1"} |-> <<>>]
      /\ last = NoMessage
      /\ turnStart = [g \in {"A"} |-> Unknown]

ThrowDartWorld ==
  \E ws \in DOMAIN conns, g \in DOMAIN live_games :
    \E dart \in WorldDarts :
      handleThrowDart(ws, g, dart[1], dart[2], MaxThrowsWorld)

NextWorld == ThrowDartWorld \/ UndoThrow

SpecWorld == InitWorld /\ [][NextWorld]_vars

----------------------------------------------------------------------------
\* POST /live-games (routes/live-games.js) and liveGames.create (db.js). The body
\* fields arrive as the form sends them: startingScore as a string of decimal
\* digits (empty when the field is left out), playerIds as nothing, one string or
\* an array. The ids that uuidv4 draws are the names of GameNames, in this order.

GameNames == <<"A", "B", "C", "D">>

\* parseInt(digits, 10) of a string of decimal digits
RECURSIVE parseInt(_)
parseInt(digits) ==
  IF Len(digits) = 0 THEN 0
  ELSE 10 * parseInt(SubSeq(digits, 1, Len(digits) - 1)) + digits[Len(digits)]

\* Array.isArray(playerIds) ? playerIds : [playerIds].filter(Boolean)
PlayerList(playerIds) ==
  IF playerIds.kind = "array" THEN playerIds.ids
  ELSE IF playerIds.kind = "string" THEN <<playerIds.id>>
  ELSE <<>>

\* let score = null; 301 / 501 by variant; the posted startingScore if there is one
RequestedScore(gameType, startingScore) ==
  IF Len(startingScore) > 0 THEN parseInt(startingScore)
  ELSE IF gameType = "301" THEN 301
  ELSE IF gameType = "501" THEN 501
  ELSE NULL

\* x || null for a number or null x: 0 is falsy. The comparison goes through the
\* printed form because x may be the string that stands for NULL.
OrNull(x) == IF ToString(x) = "0" THEN NULL ELSE x

\* liveGames.create that stores the participants in reverse order
create_Reversed(games, players, id, gameType, startingScore, createdBy, playerUserIds) ==
  [ok |-> TRUE,
   games |-> [g \in DOMAIN games \cup {id} |->
                IF g = id
                THEN GameRow(id, gameType,
                             OrNull(startingScore),
                             createdBy)
                ELSE games[g]],
   players |-> [g \in DOMAIN players \cup {id} |->
                  IF g = id
                  THEN CreatePlayers(id, gameType, startingScore,
                         [i \in 1..Len(playerUserIds) |->
                            playerUserIds[Len(playerUserIds) + 1 - i]])
                  ELSE players[g]]]

\* liveGames.create: one transaction; the UNIQUE(live_game_id, user_id) constraint
\* makes the insert of a repeated user throw, which rolls everything back.
\* `startingScore || null` stores a score of 0 as NULL in the live_games row.
create(games, players, id, gameType, startingScore, createdBy, playerUserIds) ==
  IF \E i, j \in 1..Len(playerUserIds) : i # j /\ playerUserIds[i] = playerUserIds[j]
  THEN [ok |-> FALSE, games |-> games, players |-> players]
  ELSE [ok |-> TRUE,
        games |-> [g \in DOMAIN games \cup {id} |->
                     IF g = id
                     THEN GameRow(id, gameType,
                                  OrNull(startingScore),
                                  createdBy)
                     ELSE games[g]],
        players |-> [g \in DOMAIN players \cup {id} |->
                       IF g = id
                       THEN CreatePlayers(id, gameType, startingScore, playerUserIds)
                       ELSE players[g]]]

CreateRequest(gameId, ok, request) ==
  [op |-> "create_game", conn |-> "none", gameId |-> gameId, ok |-> ok, pre |-> NoPre,
   afterThrow |-> FALSE, request |-> request]

\* router.post('/'): the whole handler for the request body `request` of `user`
postLiveGame(user, request) ==
  LET playerList == PlayerList(request.playerIds)
      id == GameNames[Cardinality(DOMAIN live_games) + 1]
      score == RequestedScore(request.gameType, request.startingScore)
      created == create(live_games, live_game_players, id, request.gameType, score,
                        user, playerList)
      fail == /\ last' = CreateRequest("none", FALSE, request)
              /\ UNCHANGED <<live_games, live_game_players, live_game_throws, turnStart>>
  IN  /\ Cardinality(DOMAIN live_games) < MaxGames
      /\ UNCHANGED <<conns, gameRooms, sent>>
      /\ IF Len(playerList) < 2 THEN fail
         ELSE IF request.gameType \notin {"Cricket", "301", "501", "Around the World"}
         THEN fail
         ELSE IF ~created.ok THEN fail
         ELSE /\ live_games' = created.games
              /\ live_game_players' = created.players
              /\ live_game_throws' = [g \in DOMAIN created.games |->
                                        IF g = id THEN <<>> ELSE live_game_throws[g]]
              /\ turnStart' = [g \in DOMAIN created.games |->
                                 IF g = id THEN Unknown ELSE turnStart[g]]
              /\ last' = CreateRequest(id, TRUE, request)

PostedTypes == {"Cricket", "301", "501", "Around the World", "Shanghai"}

PostedScores == {<<>>, <<4>>, <<0>>}

PostedPlayers ==
  {[kind |-> "undefined"], [kind |-> "string", id |-> "u1"],
   [kind |-> "array", ids |-> <<"u1", "u2">>],
   [kind |-> "array", ids |-> <<"u2", "u3", "u1">>],
   [kind |-> "array", ids |-> <<"u1", "u1">>]}

InitCreate ==
  /\ live_games = [g \in {} |-> NoGame]
  /\ live_game_players = [g \in {} |-> <<>>]
  /\ live_game_throws = [g \in {} |-> <<>>]
  /\ conns = [c \in {} |-> Socket("u1")]
  /\ gameRooms = [g \in {} |-> {}]
  /\ sent = [c \in {} |-> <<>>]
  /\ last = NoMessage
  /\ turnStart = [g \in {} |-> Unknown]

PostLiveGame ==
  \E user \in {"u1"} :
    \E gameType \in PostedTypes, startingScore \in PostedScores,
       playerIds \in PostedPlayers :
      postLiveGame(user, [gameType |-> gameType, startingScore |-> startingScore,
                          playerIds |-> playerIds])

NextCreate == PostLiveGame

SpecCreate == InitCreate /\ [][NextCreate]_vars

----------------------------------------------------------------------------
\* POST /live-games/:id/finalize (routes/live-games.js): the hand-off of a finished
\* match to the permanent games table. The record games.create is called with is
\* kept in `last`; the crown and notification tables are not part of the state.

\* a || b || null for the number a and the number or null b
ScoreOf(p) ==
  IF p.cricket_points # 0 THEN p.cricket_points ELSE OrNull(p.remaining_score)

\* playerData of the finalize route
PlayerData(game) ==
  [i \in 1..Len(game.players) |->
     [userId |-> game.players[i].user_id, score |-> ScoreOf(game.players[i]),
      position |-> i, isWinner |-> game.players[i].id = game.winner_player_id]]

FinalizeRequest(user, gameId, httpStatus, regularGame) ==
  [op |-> "finalize", conn |-> "none", gameId |-> gameId, ok |-> httpStatus = 302,
   pre |-> NoPre, afterThrow |-> FALSE, user |-> user, httpStatus |-> httpStatus,
   regularGame |-> regularGame]

\* router.post('/:id/finalize'): the whole handler for user `user`
finalize(user, gameId) ==
  LET game == findById(gameId)
      refuse(httpStatus) ==
        /\ last' = FinalizeRequest(user, gameId, httpStatus, <<>>)
        /\ UNCHANGED <<live_games, live_game_players, live_game_throws, turnStart>>
  IN  /\ sent' = [c \in DOMAIN conns |-> <<>>]
      /\ UNCHANGED <<conns, gameRooms>>
      /\ IF game = NoGame THEN refuse(404)
         ELSE IF game.status # "finished" THEN refuse(400)
         ELSE IF ~\E i \in 1..Len(game.players) : game.players[i].user_id = user
         THEN refuse(403)
         ELSE /\ live_games' = deleteGame(live_games, gameId)
              /\ live_game_players' = deleteGame(live_game_players, gameId)
              /\ live_game_throws' = deleteGame(live_game_throws, gameId)
              /\ turnStart' = deleteGame(turnStart, gameId)
              /\ last' = FinalizeRequest(user, gameId, 302,
                           [gameType |-> game.game_type, createdBy |-> user,
                            players |-> PlayerData(game)])

ThrowDartFinal ==
  \E ws \in DOMAIN conns, g \in DOMAIN live_games :
    \E dart \in ScoringDarts(live_games[g].game_type) :
      handleThrowDart(ws, g, dart[1], dart[2], MaxThrowsFinal)

Finalize == \E user \in {"u2", "u3"}, g \in {"A"} : finalize(user, g)

NextFinalize == StartGame \/ ThrowDartFinal \/ Finalize

SpecFinalize == InitThrows /\ [][NextFinalize]_vars

----------------------------------------------------------------------------
\* The life of a connection (initWebSocket). A socket is in wss.clients from the
\* moment the 'connection' event is emitted; the handler then awaits the session
\* lookup, and only after it has resolved to a user are the fields set and the
\* pong, message, close and error listeners registered. The heartbeat timer can
\* fire at any point in between. Fields of a connection beyond those of Socket:
\*   phase     "connecting"  in wss.clients, the session lookup is pending
\*             "accepted"    listeners registered, readyState OPEN
\*             "rejected"    ws.close(4001) called, no listener registered
\*             "terminated"  ws.terminate() called, its 'close' event is pending
\*             "closed"      'close' emitted, no longer in wss.clients
\*   session   the user the session lookup resolves to ("none": no session)
\*   resolved  the await of the session lookup has returned
\*   pinged    a ping was sent at the last tick and no pong has arrived since
\* isAlive is undefined until the lookup resolves; it is FALSE here, as !ws.isAlive
\* reads it. userId is "none" while undefined.

ClientOrder == <<"c1", "c2">>

Sessions == {"u1", "u2", "none"}

InClients == {"connecting", "accepted", "rejected", "terminated"}

Accepting(session) ==
  [userId |-> "none", userName |-> UserName("none"), isAlive |-> FALSE,
   gameId |-> "none", open |-> FALSE, phase |-> "connecting", session |-> session,
   resolved |-> FALSE, pinged |-> FALSE]

\* leaveGame(ws) on explicit connections and rooms
leaveGameIn(cs, rooms, ws) ==
  LET gid == cs[ws].gameId
  IN  IF gid # "none" /\ gid \in DOMAIN rooms
      THEN [conns |-> [cs EXCEPT ![ws].gameId = "none"],
            rooms |-> IF rooms[gid] \ {ws} = {}
                      THEN [g \in DOMAIN rooms \ {gid} |-> rooms[g]]
                      ELSE [rooms EXCEPT ![gid] = @ \ {ws}],
            sends |-> <<broadcastToRoom([rooms EXCEPT ![gid] = @ \ {ws}], gid,
                                        [type |-> "player_left",
                                         payload |-> [userId |-> cs[ws].userId,
                                                      userName |-> cs[ws].userName]],
                                        "none")>>]
      ELSE [conns |-> cs, rooms |-> rooms, sends |-> <<>>]

\* The continuation of the 'connection' handler that registers the listeners
\* whatever the session lookup returned
resolveSession_NoReturn(ws) ==
  /\ ~conns[ws].resolved
  /\ conns' = [conns EXCEPT
       ![ws].resolved = TRUE,
       ![ws].userId = conns[ws].session,
       ![ws].userName = UserName(conns[ws].session),
       ![ws].isAlive = TRUE,
       ![ws].open = (conns[ws].phase = "connecting"),
       ![ws].phase = IF @ = "connecting" THEN "accepted" ELSE @]
  /\ sent' = [c \in DOMAIN conns |-> <<>>]
  /\ last' = Handled("connection", ws, "none", TRUE, NoPre)
  /\ UNCHANGED <<live_games, live_game_players, live_game_throws, gameRooms, turnStart>>

\* wss.on('connection') after `await getSessionUser(req)` has returned
resolveSession(ws) ==
  /\ ~conns[ws].resolved
  /\ conns' = [conns EXCEPT ![ws] =
       IF @.session = "none"
       THEN [@ EXCEPT !.resolved = TRUE,
                      !.phase = IF @ = "connecting" THEN "rejected" ELSE @]
       ELSE [@ EXCEPT !.resolved = TRUE,
                      !.userId = conns[ws].session,
                      !.userName = UserName(conns[ws].session),
                      !.isAlive = TRUE,
                      !.open = (conns[ws].phase = "connecting"),
                      !.phase = IF @ = "connecting" THEN "accepted" ELSE @]]
  /\ sent' = [c \in DOMAIN conns |-> <<>>]
  /\ last' = Handled("connection", ws, "none", conns[ws].session # "none", NoPre)
  /\ UNCHANGED <<live_games, live_game_players, live_game_throws, gameRooms, turnStart>>

\* ws.on('pong'): the client answers the ping of the last tick
pong(ws) ==
  /\ conns[ws].open /\ conns[ws].pinged
  /\ conns' = [conns EXCEPT ![ws].isAlive = TRUE, ![ws].pinged = FALSE]
  /\ sent' = [c \in DOMAIN conns |-> <<>>]
  /\ last' = Handled("pong", ws, "none", TRUE, NoPre)
  /\ UNCHANGED <<live_games, live_game_players, live_game_throws, gameRooms, turnStart>>

\* wss.clients.forEach of the heartbeat timer, over the clients in insertion order
RECURSIVE heartbeat(_, _, _)
heartbeat(clients, cs, rooms) ==
  IF clients = <<>> THEN [conns |-> cs, rooms |-> rooms, sends |-> <<>>]
  ELSE
    LET ws == Head(clients)
    IN  IF cs[ws].phase \notin InClients THEN heartbeat(Tail(clients), cs, rooms)
        ELSE IF ~cs[ws].isAlive
        THEN LET left == leaveGameIn(cs, rooms, ws)
                 rest == heartbeat(Tail(clients),
                                   [left.conns EXCEPT ![ws].phase = "terminated",
                                                      ![ws].open = FALSE],
                                   left.rooms)
             IN  [rest EXCEPT !.sends = left.sends \o @]
        ELSE heartbeat(Tail(clients),
                       [cs EXCEPT ![ws].isAlive = FALSE, ![ws].pinged = TRUE], rooms)

heartbeatInterval ==
  LET tick == heartbeat(ClientOrder, conns, gameRooms)
  IN  /\ conns' = tick.conns
      /\ gameRooms' = tick.rooms
      /\ sent' = Outbox(tick.sends)
      /\ last' = Handled("heartbeat", "none", "none", TRUE, NoPre)
      /\ UNCHANGED <<live_games, live_game_players, live_game_throws, turnStart>>

\* The 'close' event of a socket: the client went away, or the closing that
\* ws.close(4001) or ws.terminate() started has completed. The close listener, if
\* registered, calls leaveGame.
socketClose(ws) ==
  /\ conns[ws].phase \in InClients
  /\ LET left == leaveGameIn(conns, gameRooms, ws)
     IN  /\ conns' = [left.conns EXCEPT ![ws].phase = "closed", ![ws].open = FALSE]
         /\ gameRooms' = left.rooms
         /\ sent' = Outbox(left.sends)
  /\ last' = Handled("close", ws, "none", TRUE, NoPre)
  /\ UNCHANGED <<live_games, live_game_players, live_game_throws, turnStart>>

InitConnections ==
  \E sessions \in [{"c1", "c2"} -> Sessions] :
    /\ live_games = [g \in {"A"} |-> GameRow("A", "301", StartScore, "u1")]
    /\ live_game_players = [g \in {"A"} |->
         CreatePlayers("A", "301", StartScore, <<"u1", "u2">>)]
    /\ live_game_throws = [g \in {"A"} |-> <<>>]
    /\ conns = [c \in {"c1", "c2"} |-> Accepting(sessions[c])]
    /\ gameRooms = [g \in {} |-> {}]
    /\ sent = [c \in {"c1", "c2"} |-> <<>>]
    /\ last = NoMessage
    /\ turnStart = [g \in {"A"} |-> Unknown]

ResolveSession == \E ws \in DOMAIN conns : resolveSession(ws)

Pong == \E ws \in DOMAIN conns : pong(ws)

Heartbeat == heartbeatInterval

SocketClose == \E ws \in DOMAIN conns : socketClose(ws)

JoinGameAny == \E ws \in DOMAIN conns, g \in {"A", "B"} : handleJoinGame(ws, g)

NextConnections ==
  \/ ResolveSession
  \/ JoinGameAny
  \/ LeaveGame
  \/ StartGame
  \/ Pong
  \/ Heartbeat
  \/ SocketClose

SpecConnections == InitConnections /\ [][NextConnections]_vars

----------------------------------------------------------------------------
\* Cricket throws as any client can send them: handleThrowDart passes
\* `multiplier || 1` on without looking at its range, so a throw_dart whose
\* multiplier is a negative number is processed like any other.

OutOfRangeDarts == {<<20, -1>>, <<25, -2>>}

ThrowDartAnyMultiplier ==
  \E ws \in DOMAIN conns, g \in DOMAIN live_games :
    \E dart \in CricketDarts \cup OutOfRangeDarts :
      handleThrowDart(ws, g, dart[1], dart[2], MaxThrowsCricket)

NextCricketRange == ThrowDartAnyMultiplier

SpecCricketRange == InitCricket /\ [][NextCricketRange]_vars

\* Cricket throws with multipliers 1..3 and their undo, from the same states
ThrowDartCricketUndo ==
  \E ws \in DOMAIN conns, g \in DOMAIN live_games :
    \E dart \in CricketDarts :
      handleThrowDart(ws, g, dart[1], dart[2], MaxThrowsUndo)

NextCricketUndo == ThrowDartCricketUndo \/ UndoThrow

SpecCricketUndo == InitCricket /\ [][NextCricketUndo]_vars

----------------------------------------------------------------------------
\* Vocabulary of the properties

Is01(g) == live_games[g].game_type \in GameTypes01

\* The throw_dart that the last step applied to match g
Threw(g) == last.op = "throw_dart" /\ last.ok /\ last.gameId = g

\* The undo_throw that the last step applied to match g
Undid(g) == last.op = "undo_throw" /\ last.ok /\ last.gameId = g

\* The row of the participant with id playerId in the players table
RowOf(players, playerId) == getPlayer(players, playerId)

ScoreInRange(g) ==
  \A i \in 1..Len(live_game_players[g]) :
    /\ live_game_players[g][i].remaining_score >= 0
    /\ live_game_players[g][i].remaining_score <= live_games[g].starting_score

\* C1: in a 301/501 match, after any sequence of throw_dart and undo_throw, every
\* participant's remaining score following a committed (non-bust) throw is in
\* [0, starting score]
C1_RemainingInRange ==
  \A g \in DOMAIN live_games :
    (Is01(g) /\ Threw(g) /\ ~getLastThrow(live_game_throws, g).is_bust)
      => ScoreInRange(g)

\* C2: in a 301/501 match a bust throw leaves the thrower's remaining score equal
\* to the score that participant had before dart 1 of the current turn, whatever
\* happened in earlier turns
C2_BustRestoresTurnStart ==
  \A g \in DOMAIN live_games :
    (/\ Is01(g) /\ Threw(g)
     /\ getLastThrow(live_game_throws, g).is_bust
     /\ turnStart[g].known
     /\ turnStart[g].turn = getLastThrow(live_game_throws, g).turn_number)
      => RowOf(live_game_players, last.pre.player.id).remaining_score = turnStart[g].score

\* C3: in a 301/501 match a remaining score becomes 0, and the match finishes, only
\* by a non-bust throw with multiplier 2 that brings the thrower's score to exactly
\* 0; no bust, bust restoration or undo does either
C3_ZeroOnlyByDouble ==
  [][\A g \in DOMAIN live_games \cap DOMAIN live_games' :
       (/\ Is01(g)
        /\ \/ \E i \in 1..Len(live_game_players[g]) :
                /\ live_game_players[g][i].remaining_score # 0
                /\ live_game_players'[g][i].remaining_score = 0
           \/ /\ live_games[g].status # "finished"
              /\ live_games'[g].status = "finished")
         => /\ Threw(g)'
            /\ ~getLastThrow(live_game_throws', g).is_bust
            /\ getLastThrow(live_game_throws', g).multiplier = 2
            /\ last'.pre.player.remaining_score
                 - getLastThrow(live_game_throws', g).raw_value = 0
            /\ RowOf(live_game_players', last'.pre.player.id).remaining_score = 0
            /\ live_games'[g].status = "finished"
            /\ live_games'[g].winner_player_id = last'.pre.player.id]_vars

OrdersExact(rows) == {rows[i].throw_order : i \in 1..Len(rows)} = 1..Len(rows)

\* C4: throw_dart and undo_throw messages of different connections for one match
\* are applied one at a time on the state the previous one left: a throw appends
\* one row to the stored throws, an undo removes the newest one, and the stored
\* throws carry the sequence orders exactly 1..n
C4_OrdersExact ==
  [][\A g \in DOMAIN live_games' :
       /\ OrdersExact(live_game_throws'[g])
       /\ Threw(g)' =>
            /\ Len(live_game_throws'[g]) = Len(live_game_throws[g]) + 1
            /\ SubSeq(live_game_throws'[g], 1, Len(live_game_throws[g]))
                 = live_game_throws[g]
            /\ live_game_throws'[g][Len(live_game_throws'[g])].entered_by
                 = conns[last'.conn].userId
       /\ Undid(g)' =>
            /\ Len(live_game_throws[g]) > 0
            /\ live_game_throws'[g]
                 = SubSeq(live_game_throws[g], 1, Len(live_game_throws[g]) - 1)]_vars

\* An undo sent by one connection right after a throw, leaving a throw that another
\* connection entered
C4_Witness ==
  /\ Undid("A") /\ last.afterThrow
  /\ Len(live_game_throws["A"]) = 2
  /\ live_game_throws["A"][2].entered_by # conns[last.conn].userId
  /\ live_game_throws["A"][2].entered_by # live_game_throws["A"][1].entered_by

MatchOps == {"throw_dart", "undo_throw", "start_game", "end_game"}

\* C5: a throw_dart, undo_throw, start_game or end_game addressed to match A leaves
\* the turn triple, participants and throws of every other match unchanged, and
\* its events and snapshots reach only connections in A's room
C5_RoomIsolation ==
  [][last'.op \in MatchOps =>
       /\ \A b \in DOMAIN live_games \ {last'.gameId} :
            /\ b \in DOMAIN live_games'
            /\ live_games'[b] = live_games[b]
            /\ live_game_players'[b] = live_game_players[b]
            /\ live_game_throws'[b] = live_game_throws[b]
       /\ \A ws \in DOMAIN conns :
            \A k \in 1..Len(sent'[ws]) :
              sent'[ws][k].type # "error" =>
                /\ last'.gameId \in DOMAIN gameRooms
                /\ ws \in gameRooms[last'.gameId]]_vars

\* A throw on A broadcast to A's room while another connection sits in the room of
\* B, which is being played and has a throw of its own
C5_Witness ==
  /\ Threw("A")
  /\ "B" \in DOMAIN live_games /\ live_games["B"].status = "playing"
  /\ Len(live_game_throws["B"]) > 0
  /\ \E a, b \in DOMAIN conns :
       /\ "A" \in DOMAIN gameRooms /\ a \in gameRooms["A"] /\ sent[a] # <<>>
       /\ "B" \in DOMAIN gameRooms /\ b \in gameRooms["B"] /\ sent[b] = <<>>

\* C6: in every variant and at every position of a turn, a throw_dart followed
\* immediately by a successful undo_throw restores the turn triple to its value
\* before the throw
C6_UndoRestoresTriple ==
  [][\A g \in DOMAIN live_games \cap DOMAIN live_games' :
       (Threw(g) /\ Undid(g)') => Triple(live_games'[g]) = last.pre.triple]_vars

\* An undo right after the throw that had passed the turn from the last participant
\* back to the first
C6_Witness ==
  \E g \in DOMAIN live_games :
    /\ Undid(g) /\ last.afterThrow
    /\ live_games[g].current_dart = 3
    /\ live_games[g].current_player_index = Len(live_game_players[g]) - 1
    /\ live_games[g].current_turn = 2

\* C7: in a 301/501 match a throw followed immediately by its undo restores the
\* thrower's remaining score to its value before the throw, for non-bust throws and
\* for bust throws on any dart
C7_UndoRestoresScore ==
  [][\A g \in DOMAIN live_games \cap DOMAIN live_games' :
       (Is01(g) /\ Threw(g) /\ Undid(g)')
         => RowOf(live_game_players', last.pre.player.id).remaining_score
              = last.pre.player.remaining_score]_vars

\* C8: in a Cricket match a throw followed immediately by a single undo restores
\* the thrower's seven mark counters and points to their values before the throw
C8_UndoRestoresMarks ==
  [][\A g \in DOMAIN live_games \cap DOMAIN live_games' :
       (live_games[g].game_type = "Cricket" /\ Threw(g) /\ Undid(g)')
         => /\ RowOf(live_game_players', last.pre.player.id).marks
                 = last.pre.player.marks
            /\ RowOf(live_game_players', last.pre.player.id).cricket_points
                 = last.pre.player.cricket_points]_vars

\* C9: an applied throw_dart is recorded for the participant at the current player
\* index whichever connection sent it, with the sender as the recording identity,
\* and changes no other participant's row
C9_ThrowerIsCurrentPlayer ==
  [][\A g \in DOMAIN live_games \cap DOMAIN live_games' :
       Threw(g)' =>
         /\ getLastThrow(live_game_throws', g).player_id
              = live_game_players[g][live_games[g].current_player_index + 1].id
         /\ getLastThrow(live_game_throws', g).entered_by = conns[last'.conn].userId
         /\ \A h \in DOMAIN live_game_players :
              \A i \in 1..Len(live_game_players[h]) :
                (h # g \/ i # live_games[g].current_player_index + 1)
                  => live_game_players'[h][i] = live_game_players[h][i]]_vars

\* A scoring throw recorded for the second participant by the connection of the
\* first one's user
C9_Witness ==
  \E g \in DOMAIN live_games :
    /\ Threw(g)
    /\ last.pre.triple[1] = 1
    /\ conns[last.conn].userId # last.pre.player.user_id
    /\ getLastThrow(live_game_throws, g).raw_value > 0
    /\ getLastThrow(live_game_throws, g).player_id = last.pre.player.id

\* C10: a throw_dart sent by a connection whose identity is not the participant at
\* the current player index leaves scores, throws and turn triple unchanged
C10_OutOfTurnIgnored ==
  [][(/\ last'.op = "throw_dart"
      /\ last'.gameId \in DOMAIN live_games
      /\ live_games[last'.gameId].current_player_index + 1
           \in 1..Len(live_game_players[last'.gameId])
      /\ live_game_players[last'.gameId]
           [live_games[last'.gameId].current_player_index + 1].user_id
           # conns[last'.conn].userId)
       => UNCHANGED <<live_games, live_game_players, live_game_throws>>]_vars

\* The sends of a handler that failed: one error to the sender, nothing to anyone else
OnlyErrorTo(ws) ==
  /\ Len(sent'[ws]) = 1
  /\ sent'[ws][1].type = "error"
  /\ \A other \in DOMAIN conns \ {ws} : sent'[other] = <<>>

\* C11: start_game and end_game sent by an identity other than the match's creator
\* answer the sender with an error and leave the match's status and existence
\* unchanged; start_game takes effect only while the match is waiting
C11_CreatorOnly ==
  [][(last'.op \in {"start_game", "end_game"} /\ last'.gameId \in DOMAIN live_games) =>
       /\ (live_games[last'.gameId].created_by # conns[last'.conn].userId
           \/ (last'.op = "start_game" /\ live_games[last'.gameId].status # "waiting"))
            => /\ ~last'.ok
               /\ OnlyErrorTo(last'.conn)
               /\ UNCHANGED <<live_games, live_game_players, live_game_throws>>
       /\ (live_games[last'.gameId].created_by = conns[last'.conn].userId
           /\ last'.op = "end_game")
            => last'.gameId \notin DOMAIN live_games'
       /\ (live_games[last'.gameId].created_by = conns[last'.conn].userId
           /\ last'.op = "start_game" /\ live_games[last'.gameId].status = "waiting")
            => live_games'[last'.gameId].status = "playing"]_vars

\* A start_game of the other user's connection refused on a match still waiting
C11_Witness ==
  /\ last.op = "start_game" /\ ~last.ok
  /\ last.gameId \in DOMAIN live_games
  /\ live_games[last.gameId].status = "waiting"
  /\ live_games[last.gameId].created_by # conns[last.conn].userId
  /\ Len(sent[last.conn]) = 1

\* C12: throw_dart, undo_throw, start_game and end_game sent by a connection that
\* has not joined the room of the match they name leave the match unchanged
C12_JoinedOnly ==
  [][(/\ last'.op \in MatchOps
      /\ last'.gameId \in DOMAIN live_games
      /\ ~(/\ last'.gameId \in DOMAIN gameRooms
           /\ last'.conn \in gameRooms[last'.gameId]))
       => UNCHANGED <<live_games, live_game_players, live_game_throws>>]_vars

\* C13: throw_dart and undo_throw addressed to a match that is waiting or finished
\* answer the sender with an error and change nothing of the match
C13_NotPlaying ==
  [][(/\ last'.op \in {"throw_dart", "undo_throw"}
      /\ last'.gameId \in DOMAIN live_games
      /\ live_games[last'.gameId].status \in {"waiting", "finished"})
       => /\ ~last'.ok
          /\ OnlyErrorTo(last'.conn)
          /\ UNCHANGED <<live_games, live_game_players, live_game_throws>>]_vars

\* An undo_throw refused on a match that a winning throw had finished
C13_Witness ==
  /\ last.op = "undo_throw" /\ ~last.ok
  /\ last.gameId \in DOMAIN live_games
  /\ live_games[last.gameId].status = "finished"
  /\ live_games[last.gameId].winner_player_id # NoPlayer
  /\ Len(live_game_throws[last.gameId]) > 0

\* C14: undo_throw on a match being played that has no recorded throw answers the
\* sender with an error and leaves the turn triple and every participant row
\* unchanged
C14_NothingToUndo ==
  [][(/\ last'.op = "undo_throw"
      /\ last'.gameId \in DOMAIN live_games
      /\ live_games[last'.gameId].status = "playing"
      /\ live_game_throws[last'.gameId] = <<>>)
       => /\ ~last'.ok
          /\ OnlyErrorTo(last'.conn)
          /\ UNCHANGED <<live_games, live_game_players, live_game_throws>>]_vars

\* An undo_throw refused on a match being played without throws
C14_Witness ==
  /\ last.op = "undo_throw" /\ ~last.ok
  /\ last.gameId \in DOMAIN live_games
  /\ live_games[last.gameId].status = "playing"
  /\ live_game_throws[last.gameId] = <<>>
  /\ Triple(live_games[last.gameId]) = <<0, 1, 1>>

StatusRank(status) ==
  IF status = "waiting" THEN 0 ELSE IF status = "playing" THEN 1 ELSE 2

\* C16: the status of a match only moves forward along waiting, playing, finished:
\* no start_game, throw_dart or undo_throw moves it back
C16_StatusForward ==
  [][\A g \in DOMAIN live_games \cap DOMAIN live_games' :
       /\ live_games'[g].status \in {"waiting", "playing", "finished"}
       /\ StatusRank(live_games'[g].status) >= StatusRank(live_games[g].status)]_vars

\* A start_game refused on a match that a winning throw had finished
C16_Witness ==
  /\ last.op = "start_game" /\ ~last.ok
  /\ last.gameId \in DOMAIN live_games
  /\ live_games[last.gameId].status = "finished"

\* C17: a match has a winner recorded only when its status is finished, and the
\* recorded winner is exactly one of that match's own participants
C17_WinnerOnlyFinished ==
  \A g \in DOMAIN live_games :
    live_games[g].winner_player_id # NoPlayer =>
      /\ live_games[g].status = "finished"
      /\ Cardinality({i \in 1..Len(live_game_players[g]) :
                        live_game_players[g][i].id = live_games[g].winner_player_id}) = 1

\* A match finished by a throw of its first participant, who is recorded as winner
C17_Witness ==
  \E g \in DOMAIN live_games :
    /\ Threw(g)
    /\ live_games[g].status = "finished"
    /\ live_games[g].winner_player_id = live_game_players[g][1].id
    /\ live_game_players[g][1].remaining_score = 0

\* C18: after any sequence of throws and undos the current player index is an index
\* of the participant list, the current dart is 1, 2 or 3 and the current turn is
\* at least 1
C18_TripleValid ==
  \A g \in DOMAIN live_games :
    /\ live_games[g].current_player_index \in 0..(Len(live_game_players[g]) - 1)
    /\ live_games[g].current_dart \in {1, 2, 3}
    /\ live_games[g].current_turn >= 1

\* An undo that stepped from the second participant's first dart back to the third
\* dart of turn 1
C18_Witness ==
  \E g \in DOMAIN live_games :
    /\ Undid(g) /\ last.afterThrow
    /\ Triple(live_games[g]) = <<0, 3, 1>>
    /\ Len(live_game_throws[g]) = 2

\* C20: after every applied start_game, throw_dart and undo_throw the last message
\* sent to every open connection in the match's room is a game_state snapshot
\* that equals the stored match after the handler's writes
C20_SnapshotAfter ==
  [][(last'.op \in {"start_game", "throw_dart", "undo_throw"} /\ last'.ok) =>
       /\ last'.gameId \in DOMAIN live_games'
       /\ \A ws \in DOMAIN conns :
            (/\ last'.gameId \in DOMAIN gameRooms'
             /\ ws \in gameRooms'[last'.gameId]
             /\ conns'[ws].open)
              => /\ sent'[ws] # <<>>
                 /\ sent'[ws][Len(sent'[ws])]
                      = [type |-> "game_state",
                         payload |-> formatGameState(
                           findByIdIn(live_games', live_game_players', live_game_throws',
                                      last'.gameId))]]_vars

\* A throw sent by one connection whose snapshot, with the throw in it, reached
\* the other connection in the room
C20_Witness ==
  \E g \in DOMAIN live_games, ws \in DOMAIN conns :
    /\ Threw(g)
    /\ g \in DOMAIN gameRooms /\ ws \in gameRooms[g] /\ ws # last.conn
    /\ sent[ws] # <<>>
    /\ Len(sent[ws][Len(sent[ws])].payload.throws) = 1

\* C19: for every participant count P >= 2 and turn T, k advances from
\* (player 0, dart 1, turn T) leave the pointer with participant (k \div 3) % P on
\* dart k % 3 + 1 of turn T + k \div 3: every participant holds it for 3
\* consecutive darts and 3 * P advances give (player 0, dart 1, turn T + P)
C19_AdvanceCyclic ==
  \A g \in DOMAIN live_games :
    LET P == Len(live_game_players[g])
        T == last.pre.triple[3]
        k == last.steps
    IN  /\ Triple(live_games[g]) = <<(k \div 3) % P, (k % 3) + 1, T + (k \div 3)>>
        /\ k = 3 * P => Triple(live_games[g]) = <<0, 1, T + P>>

\* Three participants, 9 advances from turn 2
C19_Witness ==
  /\ last.op = "advanceTurn"
  /\ last.steps = 9
  /\ Len(live_game_players["A"]) = 3
  /\ last.pre.triple = <<0, 1, 2>>
  /\ Triple(live_games["A"]) = <<0, 1, 5>>

\* C15: every failed operation sends exactly one error to the connection it came
\* from and nothing to anyone else, changes no match state and leaves the
\* connections and the rooms as they were
C15_FailedChangesNothing ==
  [][(last'.op # "none" /\ ~last'.ok) =>
       /\ OnlyErrorTo(last'.conn)
       /\ UNCHANGED <<live_games, live_game_players, live_game_throws>>
       /\ UNCHANGED <<conns, gameRooms>>]_vars

\* C22: after a bust in a 301/501 match the current player index is the next index
\* modulo the participant count, whichever dart of the turn was the bust
C22_BustPassesTurn ==
  \A g \in DOMAIN live_games :
    (/\ Is01(g) /\ Threw(g)
     /\ getLastThrow(live_game_throws, g).is_bust
     /\ live_games[g].status = "playing")
      => live_games[g].current_player_index
           = (last.pre.triple[1] + 1) % Len(live_game_players[g])

C30_OneStepPerThrow ==
  [][\A g \in DOMAIN live_games \cap DOMAIN live_games' :
       /\ Threw(g)' => Triple(live_games'[g]) = Triple(advanceTurn(findById(g)))
       /\ Undid(g)' => Triple(live_games'[g]) = Triple(reverseTurn(findById(g)))]_vars

\* C26: in a Cricket match a throw on a Cricket number n with multiplier m by a
\* participant with k marks on n raises the marks to k + m and awards
\* n * (k + m - max(k, 3)) points when k + m > 3 and some other participant has
\* fewer than 3 marks on n, and 0 points otherwise; a miss or a segment that is no
\* Cricket number changes no marks and no points
C26_CricketScoring ==
  [][\A g \in DOMAIN live_games \cap DOMAIN live_games' :
       (live_games[g].game_type = "Cricket" /\ Threw(g)') =>
         LET i == live_games[g].current_player_index + 1
             before == live_game_players[g][i]
             after == live_game_players'[g][i]
             n == getLastThrow(live_game_throws', g).segment
             m == getLastThrow(live_game_throws', g).multiplier
         IN  IF n \in CRICKET_NUMBERS
             THEN LET k == before.marks[n]
                      open == \E j \in 1..Len(live_game_players[g]) :
                                j # i /\ live_game_players[g][j].marks[n] < 3
                  IN  /\ after.marks = [before.marks EXCEPT ![n] = k + m]
                      /\ after.cricket_points = before.cricket_points
                           + (IF k + m > 3 /\ open
                              THEN n * (k + m - (IF k > 3 THEN k ELSE 3))
                              ELSE 0)
             ELSE /\ after.marks = before.marks
                  /\ after.cricket_points = before.cricket_points]_vars

\* A triple 20 on two marks that the other participant has closed: marks 5, no points
C26_Witness ==
  \E g \in DOMAIN live_games :
    /\ Threw(g)
    /\ getLastThrow(live_game_throws, g).segment = 20
    /\ getLastThrow(live_game_throws, g).multiplier = 3
    /\ last.pre.player.marks[20] = 2
    /\ RowOf(live_game_players, last.pre.player.id).marks[20] = 5
    /\ RowOf(live_game_players, last.pre.player.id).cricket_points
         = last.pre.player.cricket_points
    /\ \E i \in 1..Len(live_game_players[g]) :
         /\ live_game_players[g][i].id # last.pre.player.id
         /\ live_game_players[g][i].cricket_points > 0

Leads(players, i) ==
  /\ AllClosed(players[i])
  /\ \A j \in 1..Len(players) :
       j # i => players[i].cricket_points > players[j].cricket_points

\* C29: right after a throw a Cricket match is finished with participant p as
\* winner when p has at least 3 marks on all seven numbers and strictly more points
\* than every other participant; when every participant has closed all seven it is
\* finished with a participant of maximal points as winner; otherwise it is still
\* being played
C29_CricketCompletion ==
  \A g \in DOMAIN live_games :
    (live_games[g].game_type = "Cricket" /\ Threw(g)) =>
      LET players == live_game_players[g]
          N == 1..Len(players)
      IN  /\ \A i \in N : Leads(players, i) =>
               /\ live_games[g].status = "finished"
               /\ live_games[g].winner_player_id = players[i].id
          /\ (\A i \in N : AllClosed(players[i])) =>
               /\ live_games[g].status = "finished"
               /\ \E i \in N :
                    /\ live_games[g].winner_player_id = players[i].id
                    /\ \A j \in N : players[j].cricket_points <= players[i].cricket_points
          /\ (~(\E i \in N : Leads(players, i)) /\ ~(\A i \in N : AllClosed(players[i])))
               => /\ live_games[g].status = "playing"
                  /\ live_games[g].winner_player_id = NoPlayer

\* The thrower closes the bull with strictly more points while the other
\* participant has not closed everything
C29_Witness ==
  \E g \in DOMAIN live_games :
    /\ Threw(g)
    /\ live_games[g].status = "finished"
    /\ live_games[g].winner_player_id = last.pre.player.id
    /\ last.pre.player.marks[25] = 2
    /\ \E i \in 1..Len(live_game_players[g]) : ~AllClosed(live_game_players[g][i])

\* C28: in an Around the World match a throw moves the thrower's target on by
\* exactly 1 when its segment is the number the target stands for (1..20 for
\* targets 1..20, 25 for target 21), whatever the multiplier, and leaves it
\* unchanged otherwise; every participant's target is in 1..22 in every reachable
\* state; the match is finished, with the thrower as winner, exactly when the
\* thrower's target has reached 22
C28_TargetSequence ==
  \A g \in DOMAIN live_games :
    live_games[g].game_type = "Around the World" =>
      /\ \A i \in 1..Len(live_game_players[g]) :
           live_game_players[g][i].current_target \in 1..22
      /\ Threw(g) =>
           LET t == last.pre.player.current_target
               after == RowOf(live_game_players, last.pre.player.id).current_target
               hit == getLastThrow(live_game_throws, g).segment
                        = (IF t = 21 THEN 25 ELSE t)
           IN  /\ after = (IF hit THEN t + 1 ELSE t)
               /\ \A i \in 1..Len(live_game_players[g]) :
                    live_game_players[g][i].id # last.pre.player.id
                      => live_game_players[g][i].current_target < 22
               /\ live_games[g].status = "finished" <=> after = 22
               /\ after = 22 => live_games[g].winner_player_id = last.pre.player.id
               /\ after # 22 => /\ live_games[g].status = "playing"
                                /\ live_games[g].winner_player_id = NoPlayer

\* A double bull at target 21 finishes the match for the thrower
C28_Witness ==
  \E g \in DOMAIN live_games :
    /\ Threw(g)
    /\ last.pre.player.current_target = 21
    /\ getLastThrow(live_game_throws, g).segment = 25
    /\ getLastThrow(live_game_throws, g).multiplier = 2
    /\ RowOf(live_game_players, last.pre.player.id).current_target = 22
    /\ live_games[g].status = "finished"
    /\ live_games[g].winner_player_id = last.pre.player.id

\* C23: creating a match with fewer than 2 participants fails and creates no match;
\* a created match is waiting with turn triple (player 0, dart 1, turn 1), its
\* participants in the order supplied, the remaining score of each equal to the
\* starting score in 301/501 and the target 1 in Around the World
C23_CreateMatch ==
  [][last'.op = "create_game" =>
       LET request == last'.request
           supplied == PlayerList(request.playerIds)
           id == last'.gameId
       IN  /\ Len(supplied) < 2 => ~last'.ok
           /\ ~last'.ok => UNCHANGED <<live_games, live_game_players, live_game_throws>>
           /\ last'.ok =>
                /\ id \notin DOMAIN live_games
                /\ DOMAIN live_games' = DOMAIN live_games \cup {id}
                /\ \A g \in DOMAIN live_games :
                     /\ live_games'[g] = live_games[g]
                     /\ live_game_players'[g] = live_game_players[g]
                /\ live_games'[id].game_type = request.gameType
                /\ live_games'[id].status = "waiting"
                /\ Triple(live_games'[id]) = <<0, 1, 1>>
                /\ live_games'[id].winner_player_id = NoPlayer
                /\ live_game_throws'[id] = <<>>
                /\ Len(live_game_players'[id]) = Len(supplied)
                /\ \A i \in 1..Len(supplied) :
                     /\ live_game_players'[id][i].user_id = supplied[i]
                     /\ live_game_players'[id][i].player_order = i - 1
                     /\ request.gameType \in GameTypes01 =>
                          live_game_players'[id][i].remaining_score
                            = RequestedScore(request.gameType, request.startingScore)
                     /\ request.gameType = "Around the World" =>
                          live_game_players'[id][i].current_target = 1]_vars

\* A second match, a 501 of three participants with the default starting score,
\* created after a first one
C23_Witness ==
  /\ last.op = "create_game" /\ last.ok
  /\ last.gameId = "B"
  /\ live_games["B"].game_type = "501"
  /\ Len(live_game_players["B"]) = 3
  /\ live_game_players["B"][1].user_id = "u2"
  /\ live_game_players["B"][3].remaining_score = 501

\* C24: a match is handed over to permanent storage only while its status is
\* finished, and at most once: the hand-off deletes the live match, a deleted match
\* never comes back, and a finalization of a match that does not exist fails; a
\* refused finalization changes nothing of the match
C24_FinalizeOnce ==
  [][/\ DOMAIN live_games' \subseteq DOMAIN live_games
     /\ last'.op = "finalize" =>
          /\ last'.ok =>
               /\ last'.gameId \in DOMAIN live_games
               /\ live_games[last'.gameId].status = "finished"
               /\ last'.gameId \notin DOMAIN live_games'
               /\ last'.regularGame # <<>>
          /\ last'.gameId \notin DOMAIN live_games =>
               /\ ~last'.ok
               /\ last'.regularGame = <<>>
          /\ ~last'.ok =>
               UNCHANGED <<live_games, live_game_players, live_game_throws>>]_vars

\* A finalization answered with Not Found after the match has been handed over
C24_Witness ==
  /\ last.op = "finalize" /\ ~last.ok
  /\ last.httpStatus = 404
  /\ last.user = "u2"
  /\ "A" \notin DOMAIN live_games

\* The number of player_left events about user userId among the messages msgs
LeftCount(msgs, userId) ==
  Cardinality({k \in 1..Len(msgs) :
                 msgs[k].type = "player_left" /\ msgs[k].payload.userId = userId})

\* C21: at a heartbeat tick a connection that has not answered the ping of the
\* previous tick is terminated and removed from its room, and each connection that
\* remains in that room receives player_left for it exactly once, the close event
\* that follows sending none; a connection of a signed-in user is terminated by the
\* heartbeat only if it left a ping unanswered
C21_HeartbeatTimeout ==
  [][/\ last'.op = "heartbeat" =>
          \A ws \in DOMAIN conns :
            /\ (conns[ws].phase = "accepted" /\ conns[ws].pinged) =>
                 /\ conns'[ws].phase = "terminated"
                 /\ conns'[ws].gameId = "none"
                 /\ \A g \in DOMAIN gameRooms' : ws \notin gameRooms'[g]
                 /\ \A g \in DOMAIN gameRooms' :
                      (g \in DOMAIN gameRooms /\ ws \in gameRooms[g]) =>
                        \A other \in gameRooms'[g] :
                          LeftCount(sent'[other], conns[ws].userId) = 1
            /\ (/\ conns[ws].session # "none"
                /\ conns[ws].phase \in {"connecting", "accepted"}
                /\ conns'[ws].phase = "terminated")
                 => conns[ws].pinged
     /\ (last'.op = "close" /\ conns[last'.conn].phase = "terminated") =>
          \A c \in DOMAIN conns : sent'[c] = <<>>]_vars

\* C25: a connection whose session resolves to no user is closed without ever
\* being in a room; no message of it is handled, so no step made for it changes a
\* match, and it is never sent match state, an event of a room or anything else
C25_Unauthenticated ==
  [][\A ws \in DOMAIN conns :
       conns[ws].session = "none" =>
         /\ ~conns'[ws].open
         /\ conns'[ws].gameId = "none"
         /\ \A g \in DOMAIN gameRooms' : ws \notin gameRooms'[g]
         /\ sent'[ws] = <<>>
         /\ last'.conn = ws =>
              /\ last'.op \in {"connection", "close"}
              /\ UNCHANGED <<live_games, live_game_players, live_game_throws>>
         /\ (last'.op = "connection" /\ last'.conn = ws /\ conns[ws].phase = "connecting")
              => conns'[ws].phase = "rejected"]_vars

\* The match is started and broadcast to the room of a joined connection while the
\* other connection has been refused
C25_Witness ==
  /\ last.op = "start_game" /\ last.ok
  /\ \E ws, other \in DOMAIN conns :
       /\ conns[ws].session = "none"
       /\ conns[ws].phase \in {"rejected", "closed"}
       /\ conns[ws].resolved
       /\ "A" \in DOMAIN gameRooms /\ other \in gameRooms["A"]
       /\ Len(sent[other]) = 2

\* The recorded throws of match g as a set of rows
Rows(throws, g) == {throws[g][k] : k \in 1..Len(throws[g])}

\* C31: an applied undo_throw removes exactly one recorded throw of its match, the
\* one with the highest sequence order, and leaves every other recorded throw of
\* every match as it was
C31_UndoRemovesNewest ==
  [][\A g \in DOMAIN live_games \cap DOMAIN live_games' :
       Undid(g)' =>
         /\ \E t \in Rows(live_game_throws, g) :
              /\ Rows(live_game_throws', g) = Rows(live_game_throws, g) \ {t}
              /\ \A u \in Rows(live_game_throws, g) \ {t} : u.throw_order < t.throw_order
         /\ Len(live_game_throws'[g]) = Len(live_game_throws[g]) - 1
         /\ \A h \in DOMAIN live_game_throws \ {g} :
              live_game_throws'[h] = live_game_throws[h]]_vars

\* An undo that did not come straight after a throw and left two throws recorded
C31_Witness ==
  \E g \in DOMAIN live_games :
    /\ Undid(g) /\ ~last.afterThrow
    /\ Len(live_game_throws[g]) = 2
    /\ live_game_throws[g][1].throw_order = 1
    /\ live_game_throws[g][2].throw_order = 2

\* C32: in every reachable state no two recorded throws of one participant of a
\* match have the same (turn number, dart in turn), and a throw just applied
\* carries the turn number and the dart that were current when it was applied
C32_TurnDartUnique ==
  \A g \in DOMAIN live_games :
    /\ \A j, k \in 1..Len(live_game_throws[g]) :
         (/\ j # k
          /\ live_game_throws[g][j].player_id = live_game_throws[g][k].player_id)
           => <<live_game_throws[g][j].turn_number, live_game_throws[g][j].dart_in_turn>>
                # <<live_game_throws[g][k].turn_number, live_game_throws[g][k].dart_in_turn>>
    /\ Threw(g) =>
         /\ getLastThrow(live_game_throws, g).turn_number = last.pre.triple[3]
         /\ getLastThrow(live_game_throws, g).dart_in_turn = last.pre.triple[2]
         /\ getLastThrow(live_game_throws, g).player_id = last.pre.player.id

\* The first participant's first dart of a second turn of theirs (turn 3 of the
\* match), after six recorded throws
C32_Witness ==
  \E g \in DOMAIN live_games :
    /\ Threw(g)
    /\ Len(live_game_throws[g]) = 7
    /\ live_game_throws[g][7].turn_number = 3
    /\ live_game_throws[g][7].dart_in_turn = 1
    /\ live_game_throws[g][7].player_id = live_game_throws[g][1].player_id

\* C33: in a Cricket match a mark counter of a participant decreases only in a
\* step that applies an undo_throw; no throw_dart decreases any of them
C33_MarksMonotone ==
  [][\A g \in DOMAIN live_games \cap DOMAIN live_games' :
       (/\ live_games[g].game_type = "Cricket"
        /\ \E i \in 1..Len(live_game_players[g]) :
             \E n \in CRICKET_NUMBERS :
               live_game_players'[g][i].marks[n] < live_game_players[g][i].marks[n])
         => Undid(g)']_vars

\* C39: in a Cricket match the undo of a throw that was a miss or landed on a
\* segment that is no Cricket number changes none of the thrower's mark counters
\* and none of their points, whatever marks the thrower holds
C39_UndoOfNothing ==
  [][\A g \in DOMAIN live_games \cap DOMAIN live_games' :
       (/\ live_games[g].game_type = "Cricket"
        /\ Undid(g)'
        /\ getLastThrow(live_game_throws, g).segment \notin CRICKET_NUMBERS)
         => LET id == getLastThrow(live_game_throws, g).player_id
            IN  /\ RowOf(live_game_players', id).marks = RowOf(live_game_players, id).marks
                /\ RowOf(live_game_players', id).cricket_points
                     = RowOf(live_game_players, id).cricket_points]_vars

\* C38: in an Around the World match a throw followed immediately by its undo
\* restores the thrower's target to its value before the throw, for every segment
\* and multiplier, hit or not
C38_UndoRestoresTarget ==
  [][\A g \in DOMAIN live_games \cap DOMAIN live_games' :
       (live_games[g].game_type = "Around the World" /\ Threw(g) /\ Undid(g)')
         => RowOf(live_game_players', last.pre.player.id).current_target
              = last.pre.player.current_target]_vars

\* The match obtained by applying the recorded throws `throws`, in sequence order,
\* to `game` with the rules of processThrow; a 301/501 bust puts the thrower back
\* to the score held before dart 1 of that turn (starts[i], kept per participant)
RECURSIVE Replay(_, _, _)
Replay(game, throws, starts) ==
  IF throws = <<>> THEN game
  ELSE
    LET t == Head(throws)
        i == FindPlayer(game.players, t.player_id)
        starts2 == IF t.dart_in_turn = 1
                   THEN [starts EXCEPT ![i] = game.players[i].remaining_score]
                   ELSE starts
        processed == processThrow(game, t.player_id, t.segment, t.multiplier)
        game2 == IF IsBust(processed.result)
                 THEN handleBust(processed.game, t.player_id, starts2[i])
                 ELSE processed.game
    IN  Replay(game2, Tail(throws), starts2)

\* The participants of match g as liveGames.create stored them
InitialPlayers(g) ==
  CreatePlayers(g, live_games[g].game_type, live_games[g].starting_score,
                [i \in 1..Len(live_game_players[g]) |-> live_game_players[g][i].user_id])

Replayed(g) ==
  Replay([findById(g) EXCEPT !.players = InitialPlayers(g)], findById(g).throws,
         [i \in 1..Len(live_game_players[g]) |-> InitialPlayers(g)[i].remaining_score])

\* C37: after any sequence of throw_dart and undo_throw every participant's
\* Cricket marks and points, 301/501 remaining score and Around the World target
\* equal the values obtained by replaying the recorded throws in sequence order
\* from the state the match was created in
C37_ReplayConsistent ==
  \A g \in DOMAIN live_games :
    \A i \in 1..Len(live_game_players[g]) :
      /\ live_game_players[g][i].marks = Replayed(g).players[i].marks
      /\ live_game_players[g][i].cricket_points = Replayed(g).players[i].cricket_points
      /\ live_game_players[g][i].remaining_score = Replayed(g).players[i].remaining_score
      /\ live_game_players[g][i].current_target = Replayed(g).players[i].current_target

\* The participants of match g that hold the highest point total
Tied(g) ==
  {i \in 1..Len(live_game_players[g]) :
     \A j \in 1..Len(live_game_players[g]) :
       live_game_players[g][j].cricket_points <= live_game_players[g][i].cricket_points}

\* C36: when a throw leaves every participant of a Cricket match with all seven
\* numbers closed and the highest point total tied, the winner is the tied
\* participant who closed all seven first; the thrower, who has closed them only
\* now, wins a tie only against nobody
C36_TieFirstCloser ==
  \A g \in DOMAIN live_games :
    (/\ live_games[g].game_type = "Cricket" /\ Threw(g)
     /\ \A i \in 1..Len(live_game_players[g]) : AllClosed(live_game_players[g][i])
     /\ ~AllClosed(last.pre.player)
     /\ Cardinality(Tied(g)) > 1)
      => /\ live_games[g].status = "finished"
         /\ \E i \in Tied(g) :
              /\ live_game_players[g][i].id # last.pre.player.id
              /\ live_games[g].winner_player_id = live_game_players[g][i].id

\* The number of player_joined events about user userId among the messages msgs
JoinedCount(msgs, userId) ==
  Cardinality({k \in 1..Len(msgs) :
                 msgs[k].type = "player_joined" /\ msgs[k].payload.userId = userId})

\* C34: a join_game for an existing match puts the connection in the room of that
\* match; the joiner is sent exactly one message, the game_state snapshot of the
\* match as stored, with no replay of earlier operations and no player_joined;
\* every other open connection of the room is sent player_joined once, and no
\* connection outside the room is sent it
C34_JoinSnapshot ==
  [][(last'.op = "join_game" /\ last'.gameId \in DOMAIN live_games) =>
       LET ws == last'.conn
           g == last'.gameId
       IN  /\ last'.ok
           /\ g \in DOMAIN gameRooms' /\ ws \in gameRooms'[g]
           /\ conns'[ws].gameId = g
           /\ sent'[ws] = <<[type |-> "game_state",
                             payload |-> formatGameState(findById(g))]>>
           /\ UNCHANGED <<live_games, live_game_players, live_game_throws>>
           /\ \A other \in DOMAIN conns \ {ws} :
                JoinedCount(sent'[other], conns[ws].userId)
                  = (IF other \in gameRooms'[g] /\ conns[other].open THEN 1 ELSE 0)]_vars

\* A connection joins again the match it was in, which has a recorded throw: the
\* other member of the room is told that it left and joined
C34_Witness ==
  /\ last.op = "join_game" /\ last.ok
  /\ Len(sent[last.conn]) = 1
  /\ sent[last.conn][1].type = "game_state"
  /\ sent[last.conn][1].payload.throws # <<>>
  /\ \E other \in gameRooms[last.gameId] \ {last.conn} :
       /\ Len(sent[other]) = 2
       /\ sent[other][1].type = "player_left"
       /\ sent[other][2].type = "player_joined"

\* C35: leave_game, a socket close and a heartbeat tick change room membership
\* only: every match keeps its status, participants, throws and turn triple, and a
\* match stays in the store when its last connection has left and its room is gone
C35_LeavingKeepsMatch ==
  [][last'.op \in {"leave_game", "close", "heartbeat"} =>
       /\ UNCHANGED <<live_games, live_game_players, live_game_throws>>
       /\ \A g \in DOMAIN gameRooms \ DOMAIN gameRooms' : g \in DOMAIN live_games']_vars

\* The last connection leaves the room of a match being played: the room is
\* discarded, the match is still stored
C35_Witness ==
  /\ last.op = "leave_game" /\ last.gameId = "A"
  /\ "A" \notin DOMAIN gameRooms
  /\ "A" \in DOMAIN live_games
  /\ live_games["A"].status = "playing"

RegistryConsistent ==
  /\ \A g \in DOMAIN gameRooms : gameRooms[g] # {}
  /\ \A ws \in DOMAIN conns :
       /\ Cardinality({g \in DOMAIN gameRooms : ws \in gameRooms[g]}) <= 1
       /\ \A g \in DOMAIN gameRooms : ws \in gameRooms[g] <=> conns[ws].gameId = g
       /\ conns[ws].gameId # "none" => conns[ws].gameId \in DOMAIN gameRooms

\* C40: in every reachable state each connection is a member of at most one room,
\* its recorded match id is g exactly when it is a member of room g, and no room
\* of the registry is empty; a join_game that is applied leaves the connection in
\* the room of the match joined and in no other
C40_RoomRegistry ==
  /\ []RegistryConsistent
  /\ [][(last'.op = "join_game" /\ last'.ok) =>
          \A g \in DOMAIN gameRooms' :
            last'.conn \in gameRooms'[g] <=> g = last'.gameId]_vars

\* A connection that shared the room of A with another one has joined B
C40_Witness ==
  /\ last.op = "join_game" /\ last.ok /\ last.gameId = "B"
  /\ "A" \in DOMAIN gameRooms /\ "B" \in DOMAIN gameRooms
  /\ last.conn \in gameRooms["B"] /\ last.conn \notin gameRooms["A"]
  /\ \E other \in gameRooms["A"] :
       /\ Len(sent[other]) = 1
       /\ sent[other][1].type = "player_left"

====
